---- MODULE Spec2Model ----
(***************************************************************************)
(* Timber Trades Journal record extraction: the context-aware line parser  *)
(* (tools/ttj_parser_v3.py), its multi-page batch driver                   *)
(* (tools/batch_parse_multipage.py) and the tiered port normalizer         *)
(* (tools/normalize_with_authority_review.py).                             *)
(*                                                                         *)
(* Text is kept as TLA+ strings; Python's None is the string None, an      *)
(* absent day is NoDay.  The em-dash of the journal text is written        *)
(* EMDASH, a character that belongs to no character class of the parser's  *)
(* patterns except "." and "[^-]".  Confidence values are kept in tenths   *)
(* (1.0 = 10, 0.9 = 9, 0.7 = 7).                                           *)
(***************************************************************************)
EXTENDS Integers, Sequences, FiniteSets, TLC

None == "<None>"
NoDay == 0 - 1
EMDASH == "~"

(***************************************************************************)
(* Strings and characters                                                  *)
(***************************************************************************)
Ch(s, i) == SubSeq(s, i, i)

UpperLetters ==
    {"A","B","C","D","E","F","G","H","I","J","K","L","M",
     "N","O","P","Q","R","S","T","U","V","W","X","Y","Z"}
LowerLetters ==
    {"a","b","c","d","e","f","g","h","i","j","k","l","m",
     "n","o","p","q","r","s","t","u","v","w","x","y","z"}
Letters == UpperLetters \cup LowerLetters
Digits == {"0","1","2","3","4","5","6","7","8","9"}
Whitespace == {" ", "\t", "\n", "\r"}
WordChars == Letters \cup Digits \cup {"_"}

UpperSeq == <<"A","B","C","D","E","F","G","H","I","J","K","L","M",
              "N","O","P","Q","R","S","T","U","V","W","X","Y","Z">>
LowerSeq == <<"a","b","c","d","e","f","g","h","i","j","k","l","m",
              "n","o","p","q","r","s","t","u","v","w","x","y","z">>

\* str.upper() / str.lower() on one character
UpperCh(c) ==
    IF c \in LowerLetters
    THEN UpperSeq[CHOOSE k \in 1..26 : LowerSeq[k] = c]
    ELSE c
LowerCh(c) ==
    IF c \in UpperLetters
    THEN LowerSeq[CHOOSE k \in 1..26 : UpperSeq[k] = c]
    ELSE c

RECURSIVE MapUpper(_, _)
MapUpper(s, i) ==
    IF i > Len(s) THEN "" ELSE UpperCh(Ch(s, i)) \o MapUpper(s, i + 1)
upper(s) == MapUpper(s, 1)

RECURSIVE MapLower(_, _)
MapLower(s, i) ==
    IF i > Len(s) THEN "" ELSE LowerCh(Ch(s, i)) \o MapLower(s, i + 1)
lower(s) == MapLower(s, 1)

\* Python truthiness of an optional string / optional int
Falsy(x) == x = None \/ x = ""
FalsyDay(d) == d = NoDay \/ d = 0

\* "sub in s"
Contains(sub, s) ==
    \E i \in 1..(Len(s) - Len(sub) + 1) : SubSeq(s, i, i + Len(sub) - 1) = sub

\* str.strip(): drop leading and trailing whitespace
RECURSIVE FirstKept(_, _)
FirstKept(s, i) ==
    IF i <= Len(s) /\ Ch(s, i) \in Whitespace THEN FirstKept(s, i + 1) ELSE i
RECURSIVE LastKept(_, _, _)
LastKept(s, i, drop) ==
    IF i >= 1 /\ Ch(s, i) \in drop THEN LastKept(s, i - 1, drop) ELSE i
strip(s) == SubSeq(s, FirstKept(s, 1), LastKept(s, Len(s), Whitespace))

\* str.rstrip('.')
rstrip_dot(s) == SubSeq(s, 1, LastKept(s, Len(s), {"."}))

\* int() of a string of decimal digits
DigitVal(c) == CHOOSE v \in 0..9 : <<"0","1","2","3","4","5","6","7","8","9">>[v + 1] = c
RECURSIVE ToIntFrom(_, _, _)
ToIntFrom(s, i, acc) ==
    IF i > Len(s) THEN acc ELSE ToIntFrom(s, i + 1, 10 * acc + DigitVal(Ch(s, i)))
int(s) == ToIntFrom(s, 1, 0)

(***************************************************************************)
(* Regular expressions.  A pattern is a sequence of items, matched left to *)
(* right from the start of the string by backtracking in the order of      *)
(* Python's re module:                                                     *)
(*   cls   : a character class repeated min..max times, greedy or lazy;    *)
(*   open, close : the two ends of a capturing group;                      *)
(*   opt   : the start of an optional group "(?: ... )?"; the group's      *)
(*           items follow and the pattern resumes at item skip when the    *)
(*           group is left out;                                            *)
(*   look  : a one-character lookahead "(?=[...])";                        *)
(*   ahead : a lookahead "(?=a|b|...)" over a sequence of patterns;        *)
(*   end   : "$".                                                          *)
(* neg marks a negated class "[^...]"; "." is the negated class of "\n".   *)
(***************************************************************************)
Unbounded == 999

Cls(set, min, max, lazy) ==
    [k |-> "cls", set |-> set, neg |-> FALSE, min |-> min, max |-> max,
     lazy |-> lazy]
NotCls(set, min, max, lazy) ==
    [k |-> "cls", set |-> set, neg |-> TRUE, min |-> min, max |-> max,
     lazy |-> lazy]
Lit(c) == Cls({c}, 1, 1, FALSE)
Open(cap) == [k |-> "open", cap |-> cap]
Close(cap) == [k |-> "close", cap |-> cap]
Opt(skip) == [k |-> "opt", skip |-> skip]
Look(set) == [k |-> "look", set |-> set]
Ahead(alts) == [k |-> "ahead", alts |-> alts]
End == [k |-> "end"]

\* a group is <<first position, position after the last>>, <<0, 0>> when unset
NoGroups ==
    [month |-> <<0, 0>>, day |-> <<0, 0>>, ship |-> <<0, 0>>,
     origin |-> <<0, 0>>, cargo |-> <<0, 0>>, merchant |-> <<0, 0>>,
     g1 |-> <<0, 0>>, g2 |-> <<0, 0>>]
NoMatch == [ok |-> FALSE, caps |-> NoGroups]

InClass(item, c) == IF item.neg THEN c \notin item.set ELSE c \in item.set

\* the number of characters from position p on that item can consume
RECURSIVE Run(_, _, _, _)
Run(item, s, p, n) ==
    IF n < item.max /\ p + n <= Len(s) /\ InClass(item, Ch(s, p + n))
    THEN Run(item, s, p, n + 1)
    ELSE n

\* Items i.. of pat matched against s from position p.  A repeated class
\* takes the first count, in its order of preference (most first when greedy,
\* fewest first when lazy), with which the rest of the pattern matches.
RECURSIVE MatchFrom(_, _, _, _, _)
MatchFrom(pat, i, s, p, caps) ==
    IF i > Len(pat) THEN [ok |-> TRUE, caps |-> caps]
    ELSE LET item == pat[i] IN
      CASE item.k = "end" ->
             IF p = Len(s) + 1 \/ (p = Len(s) /\ Ch(s, p) = "\n")
             THEN MatchFrom(pat, i + 1, s, p, caps) ELSE NoMatch
        [] item.k = "look" ->
             IF p <= Len(s) /\ Ch(s, p) \in item.set
             THEN MatchFrom(pat, i + 1, s, p, caps) ELSE NoMatch
        [] item.k = "ahead" ->
             IF \E a \in 1..Len(item.alts) :
                  MatchFrom(item.alts[a], 1, s, p, caps).ok
             THEN MatchFrom(pat, i + 1, s, p, caps) ELSE NoMatch
        [] item.k = "open" ->
             MatchFrom(pat, i + 1, s, p, [caps EXCEPT ![item.cap] = <<p, p>>])
        [] item.k = "close" ->
             MatchFrom(pat, i + 1, s, p,
                       [caps EXCEPT ![item.cap] = <<caps[item.cap][1], p>>])
        [] item.k = "opt" ->
             LET inside == MatchFrom(pat, i + 1, s, p, caps)
             IN  IF inside.ok THEN inside
                 ELSE MatchFrom(pat, item.skip, s, p, caps)
        [] item.k = "cls" ->
             LET hi == Run(item, s, p, 0)
                 tries == {[n |-> n, m |-> MatchFrom(pat, i + 1, s, p + n, caps)] :
                             n \in item.min..hi}
                 good == {t \in tries : t.m.ok}
                 first == IF item.lazy
                          THEN CHOOSE t \in good : \A u \in good : t.n <= u.n
                          ELSE CHOOSE t \in good : \A u \in good : t.n >= u.n
             IN  IF good = {} THEN NoMatch ELSE first.m

\* pattern.match(s): the match object, or NoMatch
re_match(pat, s) == MatchFrom(pat, 1, s, 1, NoGroups)

\* match.group(name): the text of a group, None when it took no part
Group(m, s, name) ==
    LET g == m.caps[name]
    IN  IF g[1] = 0 THEN None ELSE SubSeq(s, g[1], g[2] - 1)

(***************************************************************************)
(* The patterns of TTJContextParser.__init__                               *)
(***************************************************************************)
WS0 == Cls(Whitespace, 0, Unbounded, FALSE)
WS1 == Cls(Whitespace, 1, Unbounded, FALSE)
ShipClass == Letters \cup Whitespace \cup {".", "&", "'", "-"}
DashOriginClass == Letters \cup Whitespace \cup {".", ",", "'", "-"}
AtOriginClass == Letters \cup Whitespace \cup {".", ",", "-", "&"}
HeaderClass == UpperLetters \cup Whitespace \cup {"&", ".", "'", "(", ")"}

\* early_at_pattern with the day not allowed a full stop after it
early_at_pattern_plain_day ==
    << Opt(11),
       Open("month"), Cls(WordChars, 3, 9, FALSE), Close("month"),
       Cls({"."}, 0, 1, FALSE), WS1,
       Open("day"), Cls(Digits, 1, 2, FALSE), Close("day"), WS1,
       Open("ship"), Cls(ShipClass, 1, Unbounded, TRUE), Close("ship"), WS0,
       Opt(19), Lit("("), Cls({"s", "S"}, 1, 1, FALSE), Lit(")"),
       WS0, Lit("@"), WS0,
       Open("origin"), Cls(AtOriginClass, 1, Unbounded, TRUE), Close("origin"),
       Cls({","}, 0, 1, FALSE), WS0, Look({EMDASH} \cup Digits),
       Open("cargo"), NotCls({"\n"}, 0, Unbounded, TRUE), Close("cargo"),
       End >>

early_at_pattern ==
    << Opt(12),
       Open("month"), Cls(WordChars, 3, 9, FALSE), Close("month"),
       Cls({"."}, 0, 1, FALSE), WS1,
       Open("day"), Cls(Digits, 1, 2, FALSE), Close("day"),
       Cls({"."}, 0, 1, FALSE), WS1,
       \* 12
       Open("ship"), Cls(ShipClass, 1, Unbounded, TRUE), Close("ship"), WS0,
       \* 16
       Opt(20), Lit("("), Cls({"s", "S"}, 1, 1, FALSE), Lit(")"),
       \* 20
       WS0, Lit("@"), WS0,
       Open("origin"), Cls(AtOriginClass, 1, Unbounded, TRUE), Close("origin"),
       Cls({","}, 0, 1, FALSE), WS0, Look({EMDASH} \cup Digits),
       Open("cargo"), NotCls({"\n"}, 0, Unbounded, TRUE), Close("cargo"),
       End >>

standard_dash_pattern ==
    << Opt(7),
       Open("month"), Cls(WordChars, 3, 9, FALSE), Close("month"),
       Lit("."), WS1,
       \* 7
       Open("day"), Cls(Digits, 1, 2, FALSE), Close("day"), WS1,
       \* 11
       Open("ship"), Cls(ShipClass, 1, Unbounded, TRUE), Close("ship"), WS0,
       \* 15
       Opt(19), Lit("("), Cls({"s", "S"}, 1, 1, FALSE), Lit(")"),
       \* 19
       WS0, Lit("-"), WS0,
       Open("origin"), Cls(DashOriginClass, 1, Unbounded, TRUE), Close("origin"),
       WS0, Lit("-"), WS0,
       Open("cargo"), NotCls({"-"}, 1, Unbounded, TRUE), Close("cargo"),
       WS0, Lit("-"), WS0,
       Open("merchant"), NotCls({"\n"}, 1, Unbounded, TRUE), Close("merchant"),
       End >>

\* "[A-Z]" under re.IGNORECASE is any letter
condensed_dash_pattern ==
    << Open("ship"), Cls(Letters, 1, 1, FALSE),
       Cls(ShipClass, 1, Unbounded, TRUE), Close("ship"), WS0,
       \* 6
       Opt(10), Lit("("), Cls({"s", "S"}, 1, 1, FALSE), Lit(")"),
       \* 10
       WS0, Lit("-"), WS0,
       Open("origin"), Cls(DashOriginClass, 1, Unbounded, TRUE), Close("origin"),
       WS0, Lit("-"), WS0,
       Open("cargo"), NotCls({"-"}, 1, Unbounded, TRUE), Close("cargo"),
       WS0, Lit("-"), WS0,
       Open("merchant"), NotCls({"\n"}, 1, Unbounded, TRUE), Close("merchant"),
       End >>

port_header_pattern ==
    << Open("g1"), Cls(HeaderClass, 1, Unbounded, FALSE), Close("g1"),
       Lit("."), WS0, End >>

date_header_pattern ==
    << Open("month"), Cls(WordChars, 3, 9, FALSE), Close("month"),
       Lit("."), WS1,
       Open("day"), Cls(Digits, 1, 2, FALSE), Close("day"),
       Cls({"."}, 0, 1, FALSE), WS0, End >>

\* the guard of the dated-dash attempt, r'^\w+\.\s+\d{1,2}\s+'
dated_line_pattern ==
    << Cls(WordChars, 1, Unbounded, FALSE), Lit("."), WS1,
       Cls(Digits, 1, 2, FALSE), WS1 >>

(***************************************************************************)
(* The journal issues the model reads.  An issue is the set of page files  *)
(* in the OCR directory and the lines its pages are made of; the pages'    *)
(* text is read line by line, each line any line of the issue.             *)
(***************************************************************************)
MaxLines == 6

SinglePage == {"18790426.txt"}
TwoPages == {"18790426_p002.txt", "18790426_p001.txt"}
TwoIssues == {"18790426_p002.txt", "18790426_p001.txt", "18790503.txt"}

Issues ==
    { \* city, dock and port headers above an undated arrival
      [dir |-> SinglePage,
       vocab |-> {"LONDON.", "LONDON DOCKS.", "BOSTON.", "CO.",
                  "Essex-Konigsberg-sleepers-Order"}],
      \* dated and undated arrivals under date headers
      [dir |-> SinglePage,
       vocab |-> {"LIVERPOOL.", "Oct. 3",
                  "Sept. 11 Essex (s)-Konigsberg-sleepers-Order",
                  "Anna-Riga-deals-Order"}],
      \* at-sign arrivals of the early volumes
      [dir |-> SinglePage,
       vocab |-> {"April 27. Andreas @ Fredrikstad," \o EMDASH
                     \o "54,266 boards, Nil.",
                  "Sept. 11 Olaf (s) @ St. John, N.B., 500 deals",
                  "Oct. 3", "BOSTON.", "Anna @ Riga, 500 deals"}],
      \* lines that are no arrival: deny-listed header, running text,
      \* bare day of the month, continuation in lower case
      [dir |-> SinglePage,
       vocab |-> {"IMPORTS.", "and sundry goods", "BOSTON.",
                  "11 Essex-Konigsberg-sleepers-Order"}],
      [dir |-> SinglePage,
       vocab |-> {"Oct. 3", "ditto-Riga-deals-Order", "and sundry goods",
                  "LONDON DOCKS."}],
      \* city headers and a wharf of the Thames
      [dir |-> SinglePage,
       vocab |-> {"HULL.", "LIVERPOOL.", "BURT'S WHARF.", "BOSTON.",
                  "Anna-Riga-deals-Order"}],
      \* an issue in two pages, and a second issue after it
      [dir |-> TwoPages,
       vocab |-> {"BOSTON.", "Oct. 3", "Anna-Riga-deals-Order"}],
      [dir |-> TwoIssues,
       vocab |-> {"BOSTON.", "Anna-Riga-deals-Order"}] }

AllLines == UNION {issue.vocab : issue \in Issues}

(***************************************************************************)
(* Module constants of ttj_parser_v3.py                                    *)
(***************************************************************************)
SKIP_HEADERS ==
    {"TIMBER TRADES JOURNAL", "TIMBER TRADES' JOURNAL", "ADES JOURNAL",
     "ENGLAND AND WALES", "SCOTLAND", "IRELAND", "SCOTCH SUPPLEMENT",
     "IMPORTS", "REVIEWS", "FREIGHTS", "FAILURES AND ARRANGEMENTS",
     "LIQUIDATIONS", "ERRATUM", "TRADE ITEMS", "CREDITOR PARTLY SECURED",
     "ACCEPTED TENDERS", "LONDON DOCK DELIVERIES", "ARRIVALS",
     "PINE", "SPRUCE", "PITCH PINE", "OAK", "OAK TIMBER", "MAHOGANY", "ASH",
     "LATHWOOD", "WEATHERBOARDS", "SLATING BATTENS", "MOULDING", "MOULDINGS",
     "VENEERS", "SLAB BOARDS", "POLES", "SPARS", "DECK DEALS", "LATHS",
     "PLASTERERS' LATHS", "BEAD", "TORUS SKIRTING", "DEAL", "ERABLE",
     "HEWN BALK", "AHOGANY",
     "CONTRACTS OPEN", "TRADE MARK",
     "ILLUSTRATED CATALOGUES FREE ON APPLICATION",
     "POST FREE ON APPLICATION", "EXPORT ORDERS PROMPTLY EXECUTED",
     "WRITE FOR CATALOGUE", "DETAILED SPECIFICATION ON APPLICATION",
     "COUNTRY ORDERS RECEIVE PROMPT ATTENTION", "SEND FOR REFERENCES TO USERS",
     "REGISTERED BRAND", "SILVER MEDAL", "CIRCULAR SAWS", "IN THE WORLD",
     "SPECIFICATIONS OF THE FOLLOWING HAVE BEEN PUBLISHED",
     "EVERY DESCRIPTION OF BALTIC AND AMERICAN TIMBER",
     "VENEERS OF ALL KINDS", "AND ALL VARIETIES OF FANCY WOODS",
     "EVERY DESCRIPTION OF WOOD ALWAYS IN STOCK",
     "PREPARED FROM THE DIMENSIONS STATED",
     "EXPORTERS AMERICAN HARDWOOD LUMBER",
     "AUSTRALIAN TIMBER TRADE", "TIMBER FROM CORSICA",
     "SEEDLING AND TRANSPLANTED FOREST TREES",
     "HORTICULTURAL TIMBER MERCHANT", "THE STANDARD TIMBER MEASURER",
     "GANDY'S PATENT COTTON BELTING", "THE GANDY BELT",
     "MAURICE GANDY", "THOMAS ROEBUCK & COMPANY (LIMITED)",
     "JOSEPH GARDNER & SONS", "ROBERT PARKER & CO", "LAVY BROS",
     "AT NEW ORLEANS", "THE MISSISSIPPI VALLEY", "THE HAWAIIAN ISLANDS",
     "BRANCH YARD AT NEWBURGH", "AT THE MILLWALL DOCKS", "AT AVONMOUTH",
     "BY SURREY COMMERCIAL DOCKS",
     "R. M", "R & CO", "H", "A", "ONE", "EST", "TONE", "BURGH",
     "J. H. ROW... AU", "B. & F. S. WHARF", "B. & F. WHARF",
     "Y COMMERCIAL DOCKS", "COLUMBIA", "MILWALL"}

uk_cities ==
    {"LONDON", "LIVERPOOL", "GLASGOW", "GREENOCK", "GRANGEMOUTH",
     "LEITH", "DUNDEE", "ABERDEEN", "BRISTOL", "CARDIFF", "HULL",
     "NEWCASTLE", "SUNDERLAND", "MIDDLESBROUGH", "HARTLEPOOL",
     "MANCHESTER", "GOOLE", "GRIMSBY", "SOUTHAMPTON", "PLYMOUTH",
     "BELFAST", "DUBLIN", "CORK", "BARROW", "PRESTON"}

dock_keywords == {"DOCK", "DOCKS", "WHARF", "WHARVES", "PIER", "QUAY"}

\* any(skip in port_upper for skip in SKIP_HEADERS)
IsSkipHeader(port_upper) == \E skip \in SKIP_HEADERS : Contains(skip, port_upper)
\* any(keyword in port_upper for keyword in self.dock_keywords)
IsDockName(port_upper) == \E keyword \in dock_keywords : Contains(keyword, port_upper)

\* fix_encoding replaces the mis-decoded sequences of ENCODING_FIXES; every
\* key of that table holds a character outside ASCII, and text is ASCII here
\* (no such character is in a class of the origin or header patterns), so no
\* key occurs in its argument and the text comes back as it is.
fix_encoding(text) == text

\* the window of parse_file: the lines kept before a record line
LookbackLines == 4

(***************************************************************************)
(* What the parser reads off one line, whatever the context: each line of  *)
(* the issues is stripped and matched once, a line of no issue when it is  *)
(* met.                                                                    *)
(***************************************************************************)
StripTable == [l \in AllLines |-> strip(l)]
strip_line(l) == IF l \in AllLines THEN StripTable[l] ELSE strip(l)
StrippedLines == {StripTable[l] : l \in AllLines}

\* self.port_header_pattern.match(line) with what both readers of a header
\* derive from it: port = match.group(1).rstrip('.'), port.upper(), the
\* deny-list, city and dock tests
PortHeaderOf(line, match) ==
    LET port == rstrip_dot(Group(match, line, "g1"))
        port_upper == upper(port)
    IN  IF match.ok
        THEN [ok |-> TRUE, port |-> port,
              skip |-> IsSkipHeader(port_upper),
              city |-> port_upper \in uk_cities,
              dock |-> IsDockName(port_upper)]
        ELSE [ok |-> FALSE, port |-> None, skip |-> FALSE, city |-> FALSE,
              dock |-> FALSE]
ReadPortHeader(line) == PortHeaderOf(line, re_match(port_header_pattern, line))
PortHeaderTable == [l \in StrippedLines |-> ReadPortHeader(l)]
port_header(line) ==
    IF line \in StrippedLines THEN PortHeaderTable[line] ELSE ReadPortHeader(line)

\* self.date_header_pattern.match(line): month and int(day) of a date header
DateHeaderOf(line, match) ==
    IF match.ok
    THEN [ok |-> TRUE, month |-> Group(match, line, "month"),
          day |-> int(Group(match, line, "day"))]
    ELSE [ok |-> FALSE, month |-> None, day |-> NoDay]
ReadDateHeader(line) == DateHeaderOf(line, re_match(date_header_pattern, line))
DateHeaderTable == [l \in StrippedLines |-> ReadDateHeader(l)]
date_header(line) ==
    IF line \in StrippedLines THEN DateHeaderTable[line] ELSE ReadDateHeader(line)

(***************************************************************************)
(* TTJContextParser.extract_port_from_context: the scan runs from the last *)
(* context line back to the first; j is the line under the scan.           *)
(***************************************************************************)
RECURSIVE ScanPortContext(_, _, _)
\* the body of the loop for line j, header what the pattern reads off it
ScanPortLine(context_lines, j, city_context, header) ==
    IF header.ok /\ Len(header.port) > 2 /\ Ch(header.port, 1) \notin Digits
       /\ ~header.skip /\ ~header.city
    THEN IF header.dock /\ ~Falsy(city_context)
         THEN city_context \o " (" \o header.port \o ")"
         ELSE header.port
    ELSE ScanPortContext(context_lines, j - 1,
            IF header.ok /\ Len(header.port) > 2
               /\ Ch(header.port, 1) \notin Digits /\ ~header.skip
            THEN header.port ELSE city_context)
ScanPortContext(context_lines, j, city_context) ==
    IF j = 0 THEN None
    ELSE ScanPortLine(context_lines, j, city_context,
                      port_header(strip_line(context_lines[j])))

\* extract_port_from_context taking the line before for the port, header or not
extract_port_last_line(context_lines) ==
    IF context_lines = <<>> THEN None
    ELSE rstrip_dot(strip_line(context_lines[Len(context_lines)]))

extract_port_from_context(context_lines) ==
    ScanPortContext(context_lines, Len(context_lines), None)

(***************************************************************************)
(* TTJContextParser.extract_date_from_context: <<month, day>> of the last  *)
(* date header among the context lines, <<None, NoDay>> without one.       *)
(***************************************************************************)
RECURSIVE ScanDateContext(_, _)
ScanDateLine(context_lines, j, header) ==
    IF header.ok THEN <<header.month, header.day>>
    ELSE ScanDateContext(context_lines, j - 1)
ScanDateContext(context_lines, j) ==
    IF j = 0 THEN <<None, NoDay>>
    ELSE ScanDateLine(context_lines, j,
                      date_header(strip_line(context_lines[j])))

extract_date_from_context(context_lines) ==
    ScanDateContext(context_lines, Len(context_lines))

\* text.replace('(s)', '')
RECURSIVE remove_marker(_)
remove_marker(text) ==
    IF Len(text) < 3 THEN text
    ELSE IF SubSeq(text, 1, 3) = "(s)"
         THEN remove_marker(SubSeq(text, 4, Len(text)))
         ELSE Ch(text, 1) \o remove_marker(SubSeq(text, 2, Len(text)))

(***************************************************************************)
(* TTJContextParser.parse_line_with_context, the part that reads the line: *)
(* the grammar that takes it ("early_at", "standard_dash", "condensed", or *)
(* "none" when the line is empty, a port header or matches no grammar) and *)
(* the fields of the match.                                                *)
(***************************************************************************)
\* TryCondensed with a record of RecordFormat.UNKNOWN for a line no grammar
\* takes
TryCondensed_unknown(condensed) ==
    IF condensed.ok THEN [format_type |-> "condensed", match |-> condensed]
    ELSE [format_type |-> "unknown", match |-> NoMatch]

\* "if match: format_type = ...", then "if not match: return None", for each
\* grammar in turn; at, dated and condensed are the matches of the attempts
TryCondensed(condensed) ==
    IF condensed.ok THEN [format_type |-> "condensed", match |-> condensed]
    ELSE [format_type |-> "none", match |-> NoMatch]
TryStandardDash(line, dated) ==
    IF dated.ok THEN [format_type |-> "standard_dash", match |-> dated]
    ELSE TryCondensed(IF Contains("-", line)
                      THEN re_match(condensed_dash_pattern, line)
                      ELSE NoMatch)
TryEarlyAt(line, at) ==
    IF at.ok THEN [format_type |-> "early_at", match |-> at]
    ELSE TryStandardDash(line, IF re_match(dated_line_pattern, line).ok
                               THEN re_match(standard_dash_pattern, line)
                               ELSE NoMatch)
MatchGrammar(line) ==
    IF line = "" \/ port_header(line).ok
    THEN [format_type |-> "none", match |-> NoMatch]
    ELSE TryEarlyAt(line, IF Contains("@", line)
                          THEN re_match(early_at_pattern, line) ELSE NoMatch)

FieldsOf(line, grammar) ==
    LET origin == strip(Group(grammar.match, line, "origin"))
    IN  [format_type |-> grammar.format_type,
         ship_name |-> strip(remove_marker(strip(Group(grammar.match, line,
                                                        "ship")))),
         origin_port |-> IF Falsy(origin) THEN origin ELSE fix_encoding(origin),
         cargo |-> strip(Group(grammar.match, line, "cargo")),
         merchant |-> IF Group(grammar.match, line, "merchant") = None THEN None
                      ELSE strip(Group(grammar.match, line, "merchant")),
         day |-> Group(grammar.match, line, "day"),
         month |-> Group(grammar.match, line, "month"),
         is_steamship |-> Contains("(s)", line)]
ReadFields(line) == FieldsOf(line, MatchGrammar(line))
FieldsTable == [l \in StrippedLines |-> ReadFields(l)]
line_fields(line) ==
    IF line \in StrippedLines THEN FieldsTable[line] ELSE ReadFields(line)

(***************************************************************************)
(* TTJContextParser.parse_line_with_context: the records the call returns, *)
(* <<>> for None, else the one ShipRecord.                                 *)
(***************************************************************************)
ShipRecord(line, line_number, fields, context_date, destination_port) ==
    LET month == IF Falsy(fields.month) THEN context_date[1] ELSE fields.month
        day == IF ~Falsy(fields.day) THEN int(fields.day)
               ELSE IF ~FalsyDay(context_date[2]) THEN context_date[2]
               ELSE NoDay
    IN  IF fields.format_type = "none" THEN <<>>
        ELSE << [raw_line |-> line,
                 line_number |-> line_number,
                 ship_name |-> fields.ship_name,
                 origin_port |-> fields.origin_port,
                 destination_port |-> IF Falsy(destination_port)
                                      THEN destination_port
                                      ELSE fix_encoding(destination_port),
                 cargo |-> fields.cargo,
                 merchant |-> fields.merchant,
                 day |-> day,
                 month |-> month,
                 is_steamship |-> fields.is_steamship,
                 format_type |-> fields.format_type,
                 confidence |-> IF ~Falsy(destination_port) THEN 10 ELSE 7] >>
parse_line_with_context(raw, context_lines, line_number) ==
    ShipRecord(strip_line(raw), line_number, line_fields(strip_line(raw)),
               extract_date_from_context(context_lines),
               extract_port_from_context(context_lines))

(***************************************************************************)
(* batch_parse_multipage.py: grouping the pages of the OCR directory       *)
(***************************************************************************)
\* the characters of file names in code-point order, for sorted()
CharOrder ==
    <<" ", ".", "0", "1", "2", "3", "4", "5", "6", "7", "8", "9">>
    \o UpperSeq \o <<"_">> \o LowerSeq
Ord(c) == CHOOSE k \in 1..Len(CharOrder) : CharOrder[k] = c

\* a < b for Python strings
RECURSIVE StrLessFrom(_, _, _)
StrLessFrom(a, b, i) ==
    IF i > Len(b) THEN FALSE
    ELSE IF i > Len(a) THEN TRUE
    ELSE IF Ch(a, i) = Ch(b, i) THEN StrLessFrom(a, b, i + 1)
    ELSE Ord(Ch(a, i)) < Ord(Ch(b, i))
StrLess(a, b) == StrLessFrom(a, b, 1)

\* sorted(names)
RECURSIVE SortedNames(_)
SortedNames(names) ==
    IF names = {} THEN <<>>
    ELSE LET least == CHOOSE a \in names : \A b \in names \ {a} : StrLess(a, b)
         IN  <<least>> \o SortedNames(names \ {least})

\* r'(.+?)_p(\d{3})\.txt$'; the lazy first group starts the search at the
\* first character whenever the pattern is found at all
page_pattern ==
    << Open("g1"), NotCls({"\n"}, 1, Unbounded, TRUE), Close("g1"),
       Lit("_"), Lit("p"),
       Open("g2"), Cls(Digits, 3, 3, FALSE), Close("g2"),
       Lit("."), Lit("t"), Lit("x"), Lit("t"), End >>

\* the key and page number group_multipage_files files a name under
PageKey(filename) ==
    LET page_match == re_match(page_pattern, filename)
    IN  IF page_match.ok
        THEN [base_name |-> Group(page_match, filename, "g1"),
              page_num |-> int(Group(page_match, filename, "g2")),
              file |-> filename]
        ELSE [base_name |-> filename, page_num |-> 0, file |-> filename]

\* sorted(groups[base_name], key=lambda x: x[0]): by page number, files of one
\* page number in the order of all_files
RECURSIVE SortedPages(_)
SortedPages(pages) ==
    IF pages = {} THEN <<>>
    ELSE LET first == CHOOSE a \in pages : \A b \in pages \ {a} :
                         \/ a.page_num < b.page_num
                         \/ a.page_num = b.page_num /\ StrLess(a.file, b.file)
         IN  <<first.file>> \o SortedPages(pages \ {first})

group_multipage_files(ocr_dir) ==
    LET keyed == {PageKey(f) : f \in ocr_dir}
        names == SortedNames({k.base_name : k \in keyed})
    IN  [g \in 1..Len(names) |->
            SortedPages({k \in keyed : k.base_name = names[g]})]

(***************************************************************************)
(* normalize_with_authority_review.py: PortNormalizer.  A similarity is    *)
(* the fraction <<numerator, denominator>> in lowest terms that            *)
(* SequenceMatcher.ratio() computes, 2.0 * matches / (len(a) + len(b));    *)
(* comparing the fractions orders them as Python orders the floats, equal  *)
(* fractions being equal floats.  A result is the triple the method        *)
(* returns: normalized port, confidence, tier.                             *)
(***************************************************************************)
MaxCalls == 3

\* the canonical port lists given to PortNormalizer(...), each in the order
\* the iteration of the set yields its members
References ==
    { [origin |-> <<"Danzig", "Riga", "St. John, New Brunswick", "Kronstadt">>,
       dest |-> <<"Newcastle-on-Tyne", "Newport, Mon.", "London", "Riga">>],
      [origin |-> <<"Kronstadt", "Riga", "Danzig">>,
       dest |-> <<"London", "Newport, Mon.">>],
      [origin |-> <<>>, dest |-> <<"London">>],
      [origin |-> <<"mo", "danzig", "Danzig">>, dest |-> <<"Mo", "London">>] }

\* the raw port names of the records under normalization
RawNames ==
    {"Dantzic", "riga", " Riga ", "deals", "Rigaa", "Kronstad", "Xyz",
     "St. John, New Brunswick, NB", "Newcastle-on-Tyne Docks", "Newport",
     "Lonon", "Londn", "", "JOURNAL OFFICE", "Mo", "mo", "G'burg"}
PortTypes == {"origin", "destination"}

\* self.origin_variant_map; the five entries whose target has a letter
\* outside ASCII (Libau, Westervik, Westerwik, Ornskjoldsvik, Ornskoldsvik)
\* map to no canonical port of the lists above and are left out
origin_variant_map ==
    "Cronstadt" :> "Kronstadt" @@ "Cronstad" :> "Kronstadt"
    @@ "G'burg" :> "Gothenburg" @@ "G'berg" :> "Gothenburg"
    @@ "F'stad" :> "Fredrikstad" @@ "Fred'stad" :> "Fredrikstad"
    @@ "Fredrikstadt" :> "Fredrikstad" @@ "Frederikstad" :> "Fredrikstad"
    @@ "Frederickstad" :> "Fredrikstad" @@ "Fredrikshald" :> "Halden"
    @@ "Frederikshald" :> "Halden" @@ "Frederickshald" :> "Halden"
    @@ "Hernosand" :> "Harnosand" @@ "Hudiksvall" :> "Hudikswall"
    @@ "Dantzic" :> "Danzig" @@ "Dantzig" :> "Danzig" @@ "Danzic" :> "Danzig"
    @@ "Windau" :> "Ventspils" @@ "Wyburg" :> "Wyborg"
    @@ "St. John, N.B." :> "St. John" @@ "St. John's, N.B." :> "St. John"
    @@ "St. John, N. B." :> "St. John" @@ "St. Johns" :> "St. John"
    @@ "Halifax, N.S." :> "Halifax" @@ "Charlotte Town" :> "Charlottetown"
    @@ "Krageroe" :> "Kragero" @@ "Finklippan" :> "Finnklippan"
    @@ "Swartvik" :> "Svartvik" @@ "Swartwick" :> "Svartvik"
    @@ "Swartwik" :> "Svartvik" @@ "Uddewalla" :> "Uddevalla"
    @@ "Halmstadt" :> "Halmstad" @@ "Jacobstad" :> "Jakobstad"
    @@ "Carlshamn" :> "Karlshamn" @@ "Bergqvara" :> "Bergkvara"
    @@ "Holmstrand" :> "Holmestrand" @@ "Grimstadt" :> "Grimstad"

\* self.dest_variant_map
dest_variant_map ==
    "Glasglow" :> "Glasgow" @@ "Grangmouth" :> "Grangemouth"
    @@ "Plymouh" :> "Plymouth" @@ "Lonon" :> "London"

\* fractions
RECURSIVE Gcd(_, _)
Gcd(m, n) == IF n = 0 THEN m ELSE Gcd(n, m % n)
Fraction(num, den) == <<num \div Gcd(num, den), den \div Gcd(num, den)>>
Greater(x, y) == x[1] * y[2] > y[1] * x[2]
Zero == Fraction(0, 1)
One == Fraction(1, 1)

\* the length of the run of equal characters from a[i] and b[j] on
RECURSIVE CommonRun(_, _, _, _, _, _)
CommonRun(a, b, i, j, ahi, bhi) ==
    IF i > ahi \/ j > bhi THEN 0
    ELSE IF Ch(a, i) # Ch(b, j) THEN 0
    ELSE 1 + CommonRun(a, b, i + 1, j + 1, ahi, bhi)

\* SequenceMatcher.find_longest_match without junk: the longest block common
\* to a[alo..ahi] and b[blo..bhi], the earliest in a, of those the earliest
\* in b
CommonBlocks(a, b, alo, ahi, blo, bhi) ==
    {[i |-> i, j |-> j, size |-> CommonRun(a, b, i, j, ahi, bhi)] :
       i \in alo..ahi, j \in blo..bhi}
LongestSize(blocks) ==
    CHOOSE size \in {x.size : x \in blocks} : \A y \in blocks : size >= y.size
Earliest(blocks) ==
    CHOOSE x \in blocks :
      \A y \in blocks : x.i < y.i \/ (x.i = y.i /\ x.j <= y.j)
LongestBlock(alo, blo, blocks, size) ==
    IF size = 0 THEN [i |-> alo, j |-> blo, size |-> 0]
    ELSE Earliest({x \in blocks : x.size = size})
FirstLongest(alo, blo, blocks) ==
    IF blocks = {} THEN [i |-> alo, j |-> blo, size |-> 0]
    ELSE LongestBlock(alo, blo, blocks, LongestSize(blocks))
find_longest_match(a, b, alo, ahi, blo, bhi) ==
    FirstLongest(alo, blo, CommonBlocks(a, b, alo, ahi, blo, bhi))

\* SequenceMatcher.get_matching_blocks: the characters in matching blocks,
\* x the longest block of the two ranges
RECURSIVE MatchingChars(_, _, _, _, _, _)
MatchingAround(a, b, alo, ahi, blo, bhi, x) ==
    IF x.size = 0 THEN 0
    ELSE MatchingChars(a, b, alo, x.i - 1, blo, x.j - 1)
         + x.size
         + MatchingChars(a, b, x.i + x.size, ahi, x.j + x.size, bhi)
MatchingChars(a, b, alo, ahi, blo, bhi) ==
    MatchingAround(a, b, alo, ahi, blo, bhi,
                   find_longest_match(a, b, alo, ahi, blo, bhi))

\* SequenceMatcher(None, a, b).ratio()
ratio(a, b) ==
    IF Len(a) + Len(b) = 0 THEN One
    ELSE Fraction(2 * MatchingChars(a, b, 1, Len(a), 1, Len(b)), Len(a) + Len(b))

CanonicalNames ==
    UNION {{r.origin[k] : k \in 1..Len(r.origin)}
           \cup {r.dest[k] : k \in 1..Len(r.dest)} : r \in References}
StrippedNames == {strip(n) : n \in RawNames}
SimilarityTable ==
    [pair \in StrippedNames \X CanonicalNames |->
        ratio(lower(pair[1]), lower(pair[2]))]

\* PortNormalizer.similarity
similarity(s1, s2) ==
    IF <<s1, s2>> \in DOMAIN SimilarityTable THEN SimilarityTable[<<s1, s2>>]
    ELSE ratio(lower(s1), lower(s2))

journal_markers ==
    {"TIMBER TRADES JOURNAL", "JOURNAL", "IMPORTS", "EXPORTS", "FREIGHTS",
     "FAILURES", "LIQUIDATIONS", "DIVIDENDS"}
commodity_words ==
    {"deals", "timber", "staves", "lathwood", "pitwood", "props", "battens",
     "boards"}

\* PortNormalizer.is_obvious_error
is_obvious_error(port, port_type) ==
    LET stripped == strip(port)
    IN  \/ Falsy(port)
        \/ stripped = ""
        \/ Len(stripped) <= 2 /\ stripped \notin {"Mo", "Mo."}
        \/ stripped \in {"---", "--", "-", ".", "&", "and", "or"}
        \/ Len(stripped) > 150
        \/ \E marker \in journal_markers : Contains(marker, upper(stripped))
        \/ port_type = "origin" /\ lower(stripped) \in commodity_words

\* "for canonical_port in canonical: if a.lower() == canonical_port.lower()":
\* the first canonical port equal to name but for case, None without one
RECURSIVE FirstEqual(_, _, _)
FirstEqual(name, canonical, k) ==
    IF k > Len(canonical) THEN None
    ELSE IF lower(name) = lower(canonical[k]) THEN canonical[k]
    ELSE FirstEqual(name, canonical, k + 1)

\* the loop "if score > best_score" over the canonical ports from the k-th on
RECURSIVE BestMatch(_, _, _, _, _)
BetterMatch(port, canonical, k, best_match, best_score, score) ==
    BestMatch(port, canonical, k + 1,
              IF Greater(score, best_score) THEN canonical[k] ELSE best_match,
              IF Greater(score, best_score) THEN score ELSE best_score)
BestMatch(port, canonical, k, best_match, best_score) ==
    IF k > Len(canonical)
    THEN [best_match |-> best_match, best_score |-> best_score]
    ELSE BetterMatch(port, canonical, k, best_match, best_score,
                     similarity(port, canonical[k]))

Result(normalized, confidence, tier) ==
    [normalized |-> normalized, confidence |-> confidence, tier |-> tier]

\* PortNormalizer.normalize_port after the cache lookup, tier by tier; port
\* is stripped and not empty, and exact, variant, high, medium and low are
\* what the loop of the tier found
\* FuzzyLow that returns the best match with the tier unmapped too
FuzzyLow_best_kept(low) ==
    IF Greater(low.best_score, Fraction(70, 100))
    THEN Result(low.best_match, low.best_score, "fuzzy_low")
    ELSE Result(low.best_match, low.best_score, "unmapped")
FuzzyLow(low) ==
    IF Greater(low.best_score, Fraction(70, 100))
    THEN Result(low.best_match, low.best_score, "fuzzy_low")
    ELSE Result(None, Zero, "unmapped")
FuzzyMedium(port, canonical, medium) ==
    IF ~Falsy(medium.best_match)
    THEN Result(medium.best_match, medium.best_score, "fuzzy_medium")
    ELSE FuzzyLow(BestMatch(port, canonical, 1, None, Zero))
FuzzyHigh(port, canonical, high) ==
    IF ~Falsy(high.best_match)
    THEN Result(high.best_match, high.best_score, "fuzzy_high")
    ELSE FuzzyMedium(port, canonical,
                     BestMatch(port, canonical, 1, None, Fraction(85, 100)))
KnownVariant(port, canonical, variant) ==
    IF variant # None THEN Result(variant, One, "variant")
    ELSE FuzzyHigh(port, canonical,
                   BestMatch(port, canonical, 1, None, Fraction(92, 100)))
\* ExactMatch that takes the target of the variant map as it stands
ExactMatch_unverified(port, canonical, variant_map, exact) ==
    IF exact # None THEN Result(exact, One, "exact")
    ELSE KnownVariant(port, canonical,
                      IF port \in DOMAIN variant_map
                      THEN variant_map[port]
                      ELSE None)
ExactMatch(port, canonical, variant_map, exact) ==
    IF exact # None THEN Result(exact, One, "exact")
    ELSE KnownVariant(port, canonical,
                      IF port \in DOMAIN variant_map
                      THEN FirstEqual(variant_map[port], canonical, 1)
                      ELSE None)
Tiers(port, port_type, canonical, variant_map) ==
    IF is_obvious_error(port, port_type) THEN Result(None, Zero, "error")
    ELSE ExactMatch(port, canonical, variant_map,
                    FirstEqual(port, canonical, 1))

VariantMap(port_type) ==
    IF port_type = "origin" THEN origin_variant_map ELSE dest_variant_map
TiersKeys ==
    {<<port, "origin", reference.origin>> :
        port \in StrippedNames \ {""}, reference \in References}
    \cup {<<port, "destination", reference.dest>> :
            port \in StrippedNames \ {""}, reference \in References}
TiersTable ==
    [call \in TiersKeys |->
        Tiers(call[1], call[2], call[3], VariantMap(call[2]))]
tiers(port, port_type, canonical, variant_map) ==
    IF <<port, port_type, canonical>> \in TiersKeys
       /\ variant_map = VariantMap(port_type)
    THEN TiersTable[<<port, port_type, canonical>>]
    ELSE Tiers(port, port_type, canonical, variant_map)

(***************************************************************************)
(* CargoParser (cargo_parser.py).  A cargo item is the CargoItem the       *)
(* parser makes: quantity, unit, commodity, merchant, raw_text.            *)
(***************************************************************************)
MaxSegments == 2

\* the groups of the cargo patterns; whole is group 0, the match itself
CargoGroups ==
    [whole |-> <<0, 0>>, quantity |-> <<0, 0>>, unit |-> <<0, 0>>,
     commodity |-> <<0, 0>>, merchant |-> <<0, 0>>]

CommodityClass == Letters \cup Whitespace \cup {"-", "&"}
MerchantClass == Letters \cup Whitespace \cup {".", "&", "'", "-"}

\* self.item_with_unit_pattern; "[a-z]" under re.IGNORECASE is any letter
item_with_unit_pattern ==
    << Open("whole"),
       Open("quantity"), Cls(Digits, 1, Unbounded, FALSE),
       Cls(Digits \cup {","}, 0, Unbounded, FALSE), Close("quantity"), WS1,
       Open("unit"), Cls(Letters, 1, 6, FALSE), Lit("."), Close("unit"), WS1,
       Open("commodity"), Cls(CommodityClass, 1, Unbounded, FALSE),
       Close("commodity"),
       Close("whole") >>

\* self.item_no_unit_pattern; "[A-Z]" under re.IGNORECASE is any letter
item_no_unit_pattern ==
    << Open("whole"),
       Open("quantity"), Cls(Digits, 1, Unbounded, FALSE),
       Cls(Digits \cup {","}, 0, Unbounded, FALSE), Close("quantity"), WS1,
       Open("commodity"), Cls(Letters, 1, 1, FALSE),
       Cls(CommodityClass, 2, 25, TRUE), Close("commodity"),
       Ahead(<< <<Lit(",")>>, <<Lit(";")>>, <<Lit(".")>>,
                <<WS1, Cls(Letters, 1, 1, FALSE)>>, <<End>> >>),
       Close("whole") >>

\* the merchant pattern of parse_cargo_string, r',\s*([A-Z]...+?)(?:;|$)';
\* the closing ";" is the last of the pattern and only group 1 is read, so
\* taking it or looking at it is the same
merchant_pattern ==
    << Lit(","), WS0,
       Open("merchant"), Cls(UpperLetters, 1, 1, FALSE),
       Cls(MerchantClass, 1, Unbounded, TRUE), Close("merchant"),
       Ahead(<< <<Lit(";")>>, <<End>> >>) >>

\* pattern.search(s): the first match from position p on, NoMatch without
RECURSIVE SearchFrom(_, _, _)
FirstOr(pat, s, p, m) == IF m.ok THEN m ELSE SearchFrom(pat, s, p + 1)
SearchFrom(pat, s, p) ==
    IF p > Len(s) + 1 THEN NoMatch
    ELSE FirstOr(pat, s, p, MatchFrom(pat, 1, s, p, CargoGroups))
re_search(pat, s) == SearchFrom(pat, s, 1)

\* pattern.findall(s): the matches left to right, none overlapping another
RECURSIVE FindAllFrom(_, _, _)
NextMatch(pat, s, m) ==
    IF ~m.ok THEN <<>>
    ELSE <<m>> \o FindAllFrom(pat, s, IF m.caps.whole[2] > m.caps.whole[1]
                                      THEN m.caps.whole[2]
                                      ELSE m.caps.whole[2] + 1)
FindAllFrom(pat, s, p) == NextMatch(pat, s, SearchFrom(pat, s, p))
findall(pat, s) == FindAllFrom(pat, s, 1)

\* str.lstrip(chars)
RECURSIVE FirstNotIn(_, _, _)
FirstNotIn(s, i, chars) ==
    IF i <= Len(s) /\ Ch(s, i) \in chars THEN FirstNotIn(s, i + 1, chars) ELSE i
lstrip(s, chars) == SubSeq(s, FirstNotIn(s, 1, chars), Len(s))

\* re.split(r';', s): the pieces between the semicolons, from position p on
RECURSIVE SplitFrom(_, _, _)
SplitFrom(s, p, q) ==
    IF q > Len(s) THEN <<SubSeq(s, p, Len(s))>>
    ELSE IF Ch(s, q) = ";" THEN <<SubSeq(s, p, q - 1)>> \o SplitFrom(s, q + 1, q + 1)
    ELSE SplitFrom(s, p, q + 1)
split_semicolon(s) == SplitFrom(s, 1, 1)

\* str.split(): the words between runs of whitespace
RECURSIVE WordsFrom(_, _, _)
WordsFrom(s, p, q) ==
    IF q > Len(s) THEN (IF q > p THEN <<SubSeq(s, p, Len(s))>> ELSE <<>>)
    ELSE IF Ch(s, q) \in Whitespace
    THEN (IF q > p THEN <<SubSeq(s, p, q - 1)>> ELSE <<>>)
         \o WordsFrom(s, q + 1, q + 1)
    ELSE WordsFrom(s, p, q + 1)
split_words(s) == WordsFrom(s, 1, 1)

placeholders == {"order", "nil", "ditto"}
merchant_commodity_words ==
    {"deals", "timber", "boards", "staves", "battens", "planks", "logs"}
commodity_keywords ==
    <<"deals", "timber", "boards", "battens", "staves", "mahogany", "cedar",
      "oak", "pine", "firewood", "laths", "planks">>

\* lines 118-127: the merchant of the segment, None when filtered out
AllCommodityWords(words) ==
    \A w \in 1..Len(words) : lower(words[w]) \in merchant_commodity_words
MerchantOf(merchant_candidate) ==
    IF \E word \in placeholders : Contains(word, lower(merchant_candidate))
    THEN None
    ELSE IF AllCommodityWords(split_words(merchant_candidate)) THEN None
    ELSE merchant_candidate
SegmentMerchant(segment, merchant_match) ==
    IF ~merchant_match.ok THEN None
    ELSE MerchantOf(rstrip_dot(strip(Group(merchant_match, segment, "merchant"))))

\* lines 90-104: the matches with a unit, then those without that overlap none
\* of them ("if quantity in um[0]")
UnitMatch(segment, m) ==
    [quantity |-> Group(m, segment, "quantity"),
     unit |-> Group(m, segment, "unit"),
     commodity |-> Group(m, segment, "commodity")]
NoUnitMatch(segment, m) ==
    [quantity |-> Group(m, segment, "quantity"),
     unit |-> None,
     commodity |-> Group(m, segment, "commodity")]
Overlaps(quantity, with_unit) ==
    \E u \in 1..Len(with_unit) : Contains(quantity, with_unit[u].quantity)
AllMatches(segment, matches_with_unit, matches_no_unit) ==
    [u \in 1..Len(matches_with_unit) |-> UnitMatch(segment, matches_with_unit[u])]
    \o SelectSeq([n \in 1..Len(matches_no_unit) |->
                     NoUnitMatch(segment, matches_no_unit[n])],
                 LAMBDA match :
                   ~Overlaps(match.quantity,
                             [u \in 1..Len(matches_with_unit) |->
                                UnitMatch(segment, matches_with_unit[u])]))

\* str.replace(',', '')
RECURSIVE DropCommas(_, _)
DropCommas(s, i) ==
    IF i > Len(s) THEN ""
    ELSE (IF Ch(s, i) = "," THEN "" ELSE Ch(s, i)) \o DropCommas(s, i + 1)
without_commas(s) == DropCommas(s, 1)

CargoItem(quantity, unit, commodity, merchant, raw_text) ==
    [quantity |-> quantity, unit |-> unit, commodity |-> commodity,
     merchant |-> merchant, raw_text |-> raw_text]
RawText(segment) == SubSeq(segment, 1, IF Len(segment) < 100 THEN Len(segment) ELSE 100)

\* lines 129-140: one item per match, all with the merchant of the segment
MatchedItems(segment, all_matches, merchant) ==
    [a \in 1..Len(all_matches) |->
        CargoItem(without_commas(all_matches[a].quantity),
                  IF ~Falsy(all_matches[a].unit)
                  THEN rstrip_dot(lower(all_matches[a].unit)) ELSE None,
                  lower(strip(all_matches[a].commodity)),
                  merchant,
                  RawText(segment))]

\* lines 141-162: the first commodity keyword the segment holds, from the k-th
RECURSIVE FoundCommodity(_, _)
FoundCommodity(segment_lower, k) ==
    IF k > Len(commodity_keywords) THEN None
    ELSE IF Contains(commodity_keywords[k], segment_lower) THEN commodity_keywords[k]
    ELSE FoundCommodity(segment_lower, k + 1)
\* KeywordItems with an item for a segment that holds no keyword either
KeywordItems_any_text(segment, found_commodity) ==
    <<CargoItem(None, None, IF found_commodity = None THEN "" ELSE found_commodity,
                None, RawText(segment))>>
KeywordItems(segment, found_commodity) ==
    IF found_commodity = None THEN <<>>
    ELSE <<CargoItem(None, None, found_commodity, None, RawText(segment))>>

\* the body of the loop over the segments, segment stripped
ItemsOf(segment, all_matches) ==
    IF all_matches # <<>>
    THEN MatchedItems(segment, all_matches,
                      SegmentMerchant(segment, re_search(merchant_pattern, segment)))
    ELSE KeywordItems(segment, FoundCommodity(lower(segment), 1))
SegmentItems(segment) ==
    IF segment = "" \/ Len(segment) < 5 THEN <<>>
    ELSE ItemsOf(segment,
                 AllMatches(segment, findall(item_with_unit_pattern, segment),
                            findall(item_no_unit_pattern, segment)))

\* the cargo fields the model parses: up to MaxSegments segments joined by
\* "; ", with or without the dash that opens the cargo of an at-sign line
CargoSegments ==
    {"1,300 staves, Nickols & Colven", "41,500 staves, H. & R. Fowler",
     "8,047 boards, Nilsson & Co", "102 bgs. wood pulp, J. Spicer & Co.",
     "deals and battens", "sundries", "12 ab, Cd", "",
     "102 bgs. pulp, 2 logs", "102 bgs. pulp, 35 logs", "pine"}
RECURSIVE Join(_, _)
Join(segments, k) ==
    IF k > Len(segments) THEN ""
    ELSE (IF k > 1 THEN "; " ELSE "") \o segments[k] \o Join(segments, k + 1)
SegmentLists == UNION {[1..n -> CargoSegments] : n \in 0..MaxSegments}
CargoFields ==
    {None} \cup {Join(list, 1) : list \in SegmentLists}
    \cup {EMDASH \o Join(list, 1) : list \in SegmentLists}

SegmentTable == [segment \in CargoSegments |-> SegmentItems(segment)]
segment_items(segment) ==
    IF segment \in CargoSegments THEN SegmentTable[segment]
    ELSE SegmentItems(segment)

\* CargoParser.parse_cargo_string: the items of the segments from the k-th on
RECURSIVE ItemsFrom(_, _)
ItemsFrom(segments, k) ==
    IF k > Len(segments) THEN <<>>
    ELSE segment_items(strip(segments[k])) \o ItemsFrom(segments, k + 1)
ParseCargo(cargo_string) ==
    IF Falsy(cargo_string) \/ Len(cargo_string) < 3 THEN <<>>
    ELSE ItemsFrom(split_semicolon(strip(lstrip(cargo_string, {EMDASH, "-"}))), 1)

(***************************************************************************)
(* FormatDetector (ttj_format_detector.py).  The tag of a text is the      *)
(* value of the FormatType detect_format returns.                          *)
(***************************************************************************)
MaxTextLines == 2

\* year: Optional[int] = None
NoYear == 0 - 1
FalsyYear(y) == y = NoYear \/ y = 0

FormatTypes ==
    {"early_at", "transition", "standard_dash", "late_dock", "unknown"}

\* self.london_docks
london_docks ==
    {"SURREY COMMERCIAL DOCKS", "MILLWALL DOCKS", "ROYAL ALBERT DOCKS",
     "VICTORIA DOCKS", "TILBURY DOCKS", "WEST INDIA DOCKS",
     "REGENT'S CANAL DOCK", "SHADWELL BASIN", "BREWER'S QUAY",
     "BURT'S WHARF", "GALLEON'S BUOYS", "HANOVER HOLE",
     "PRINCE REGENT'S WHARF", "OTHER DOCKS AND WHARVES"}

\* r'-[A-Z]' and r'\s+-\s+', compiled without flags
dash_delimiter_pattern ==
    << Open("whole"), Lit("-"), Cls(UpperLetters, 1, 1, FALSE), Close("whole") >>
spaced_dash_pattern ==
    << Open("whole"), WS1, Lit("-"), WS1, Close("whole") >>

\* str.count(c) for a character c, from position i on
RECURSIVE CountFrom(_, _, _)
CountFrom(s, c, i) ==
    IF i > Len(s) THEN 0
    ELSE (IF Ch(s, i) = c THEN 1 ELSE 0) + CountFrom(s, c, i + 1)

\* FormatDetector._detect_format_signals; has_month_day_prefix, which
\* detect_format does not read, is left out
detect_format_signals(t) ==
    [uses_at_delimiter |-> Contains("@", t),
     uses_dash_delimiter |-> re_search(dash_delimiter_pattern, t).ok,
     at_count |-> CountFrom(t, "@", 1),
     dash_count |-> Len(findall(spaced_dash_pattern, t)),
     has_dock_subdivisions |-> \E dock \in london_docks : Contains(dock, t)]

\* detect_format, the year-based heuristic
YearFormat(y) ==
    IF y <= 1878 THEN "early_at"
    ELSE IF y <= 1880 THEN "transition"
    ELSE IF y <= 1884 THEN "standard_dash"
    ELSE "late_dock"

\* detect_format, the decision logic on the signals
ContentFormat(signals) ==
    IF signals.uses_at_delimiter /\ signals.at_count > signals.dash_count
    THEN "early_at"
    ELSE IF signals.has_dock_subdivisions THEN "late_dock"
    ELSE IF signals.uses_dash_delimiter THEN "standard_dash"
    ELSE IF signals.at_count > 0 /\ signals.dash_count > 0 THEN "transition"
    ELSE "unknown"

\* DetectFormat that lets the content decide and the year only when the
\* content says nothing
DetectFormat_content_first(t, y) ==
    IF ContentFormat(detect_format_signals(t)) # "unknown"
    THEN ContentFormat(detect_format_signals(t))
    ELSE IF ~FalsyYear(y) THEN YearFormat(y)
    ELSE "unknown"
DetectFormat(t, y) ==
    IF ~FalsyYear(y) THEN YearFormat(y)
    ELSE ContentFormat(detect_format_signals(t))

\* the texts the model detects the format of: up to MaxTextLines lines, and
\* the year hints: none, and years of the journal on both sides of each
\* boundary
FormatLines ==
    {"Anna @ Riga", "Anna-Riga-deals-Order", "MILLWALL DOCKS.",
     "Anna - Riga", "and sundry goods", "anna-riga"}
RECURSIVE JoinLines(_, _)
JoinLines(list, k) ==
    IF k > Len(list) THEN ""
    ELSE (IF k > 1 THEN "\n" ELSE "") \o list[k] \o JoinLines(list, k + 1)
FormatTexts ==
    {JoinLines(list, 1) : list \in UNION {[1..n -> FormatLines] : n \in 0..MaxTextLines}}
Years == {NoYear, 1874, 1878, 1879, 1880, 1881, 1884, 1885, 1899}

VARIABLES
    ocr_dir,        \* the names of the page files of the OCR directory
    vocab,          \* the lines the pages are made of
    file_groups,    \* process_all_files: the groups of page files; each
                    \* file a group of its own in batch_parse_all
    group_idx,      \* process_all_files: the group under work
    page_idx,       \* process_file_group: the page under work
    lines,          \* parse_file: the lines of the page read so far
    nread,          \* the lines read so far, all pages together
    current_port,   \* TTJContextParser: persistent context
    current_city,
    current_month,
    current_day,
    all_records,    \* process_all_files: the records emitted so far
    run_port,       \* what the last header-shaped line resolved
                    \* current_port to, None when it resolved nothing
    canonical_origin,   \* PortNormalizer: the canonical lists,
    canonical_dest,     \* in iteration order
    origin_cache,       \* PortNormalizer: results by stripped raw name
    dest_cache,
    ncalls,             \* the normalize_port calls made so far
    last_call,          \* the last of them, arguments and result; <<>> before
    warnings,           \* PortNormalizer: the warnings reported on the
                        \* reference data
    cargo,              \* the cargo field given to parse_cargo_string
    items,              \* the CargoItems it returned
    cargo_done,         \* parse_cargo_string has returned
    ocr_text,           \* the OCR text given to detect_format
    year,               \* the year hint given with it, NoYear without
    format_type         \* the tag detect_format returned, None before

parser_vars == <<ocr_dir, vocab, file_groups, group_idx, page_idx, lines,
                 nread, current_port, current_city, current_month,
                 current_day, all_records, run_port>>
normalizer_vars == <<canonical_origin, canonical_dest, origin_cache,
                     dest_cache, ncalls, last_call, warnings>>
cargo_vars == <<cargo, items, cargo_done>>
format_vars == <<ocr_text, year, format_type>>
vars == <<parser_vars, normalizer_vars, cargo_vars, format_vars>>

Done == group_idx > Len(file_groups)
page_file == file_groups[group_idx][page_idx]

\* PortNormalizer.__init__: the lists as given, the caches empty; the
\* variant maps are literals that nothing compares with the lists, and nothing
\* is reported
NewNormalizer(reference) ==
    /\ canonical_origin = reference.origin
    /\ canonical_dest = reference.dest
    /\ warnings = {}
    /\ origin_cache = <<>>
    /\ dest_cache = <<>>
    /\ ncalls = 0
    /\ last_call = <<>>

\* no cargo field is under parsing
NoCargo ==
    /\ cargo = None
    /\ items = <<>>
    /\ cargo_done = FALSE

\* no text is under format detection
NoFormat ==
    /\ ocr_text = None
    /\ year = NoYear
    /\ format_type = None

\* TTJContextParser.__init__: the context of a new parser; the parsing runs
\* before any normalizer is made
Init ==
    /\ NewNormalizer([origin |-> <<>>, dest |-> <<>>])
    /\ NoCargo
    /\ NoFormat
    /\ \E issue \in Issues : ocr_dir = issue.dir /\ vocab = issue.vocab
    /\ file_groups = group_multipage_files(ocr_dir)
    /\ group_idx = 1
    /\ page_idx = 1
    /\ lines = <<>>
    /\ nread = 0
    /\ current_port = None
    /\ current_city = None
    /\ current_month = None
    /\ current_day = NoDay
    /\ all_records = <<>>
    /\ run_port = None

\* context_lines of parse_file: the stripped lines max(0, i - 4) .. i - 1
ContextLines(file_lines, i) ==
    LET context_start == IF i - LookbackLines > 0 THEN i - LookbackLines ELSE 0
    IN  [j \in 1..(i - context_start) |-> strip_line(file_lines[context_start + j])]

\* PortHeaderLine without the deny-list of SKIP_HEADERS
PortHeaderLine_no_skip_list(header) ==
    /\ IF header.city
       THEN /\ current_city' = header.port
            /\ UNCHANGED current_port
            /\ run_port' = None
       ELSE IF header.dock
       THEN /\ current_port' = IF ~Falsy(current_city)
                               THEN current_city \o " (" \o header.port \o ")"
                               ELSE header.port
            /\ UNCHANGED current_city
            /\ run_port' = current_port'
       ELSE /\ current_port' = header.port
            /\ current_city' = None
            /\ run_port' = current_port'
    /\ UNCHANGED <<current_month, current_day, all_records>>

\* parse_file, the port-header branch of the loop body
PortHeaderLine(header) ==
    /\ IF header.skip
       THEN /\ UNCHANGED <<current_port, current_city>>
            /\ run_port' = None
       ELSE IF header.city
       THEN /\ current_city' = header.port
            /\ UNCHANGED current_port
            /\ run_port' = None
       ELSE IF header.dock
       THEN /\ current_port' = IF ~Falsy(current_city)
                               THEN current_city \o " (" \o header.port \o ")"
                               ELSE header.port
            /\ UNCHANGED current_city
            /\ run_port' = current_port'
       ELSE /\ current_port' = header.port
            /\ current_city' = None
            /\ run_port' = current_port'
    /\ UNCHANGED <<current_month, current_day, all_records>>

\* AppendRecord that also fills the month in of the earlier records without
\* one
AppendRecord_revising(date_match, parsed) ==
    LET header_month == IF date_match.ok THEN date_match.month ELSE current_month
        header_day == IF date_match.ok THEN date_match.day ELSE current_day
        record == parsed[1]
        persistent == Falsy(record.destination_port) /\ ~Falsy(current_port)
        month == IF Falsy(record.month) /\ ~Falsy(header_month)
                 THEN header_month ELSE record.month
        day == IF FalsyDay(record.day) /\ ~FalsyDay(header_day)
               THEN header_day ELSE record.day
    IN  /\ UNCHANGED <<current_port, current_city, run_port>>
        /\ IF parsed = <<>>
           THEN /\ current_month' = header_month
                /\ current_day' = header_day
                /\ UNCHANGED all_records
           ELSE /\ current_month' = IF ~Falsy(month) THEN month ELSE header_month
                /\ current_day' = IF ~FalsyDay(day) THEN day ELSE header_day
                /\ all_records' = Append(
                      [k \in 1..Len(all_records) |->
                         IF Falsy(all_records[k].month)
                         THEN [all_records[k] EXCEPT !.month = month]
                         ELSE all_records[k]],
                      [source_file |-> page_file,
                       line_number |-> record.line_number,
                       raw_line |-> record.raw_line,
                       ship_name |-> record.ship_name,
                       origin_port |-> record.origin_port,
                       destination_port |-> IF persistent THEN current_port
                                            ELSE record.destination_port,
                       cargo |-> record.cargo,
                       merchant |-> record.merchant,
                       day |-> day,
                       month |-> month,
                       is_steamship |-> record.is_steamship,
                       format_type |-> record.format_type,
                       confidence |-> IF persistent THEN 9
                                      ELSE record.confidence])

\* parse_file, the rest of the loop body: date header, then the record
AppendRecord(date_match, parsed) ==
    LET header_month == IF date_match.ok THEN date_match.month ELSE current_month
        header_day == IF date_match.ok THEN date_match.day ELSE current_day
        record == parsed[1]
        persistent == Falsy(record.destination_port) /\ ~Falsy(current_port)
        month == IF Falsy(record.month) /\ ~Falsy(header_month)
                 THEN header_month ELSE record.month
        day == IF FalsyDay(record.day) /\ ~FalsyDay(header_day)
               THEN header_day ELSE record.day
    IN  /\ UNCHANGED <<current_port, current_city, run_port>>
        /\ IF parsed = <<>>
           THEN /\ current_month' = header_month
                /\ current_day' = header_day
                /\ UNCHANGED all_records
           ELSE /\ current_month' = IF ~Falsy(month) THEN month ELSE header_month
                /\ current_day' = IF ~FalsyDay(day) THEN day ELSE header_day
                /\ all_records' = Append(all_records,
                      [source_file |-> page_file,
                       line_number |-> record.line_number,
                       raw_line |-> record.raw_line,
                       ship_name |-> record.ship_name,
                       origin_port |-> record.origin_port,
                       destination_port |-> IF persistent THEN current_port
                                            ELSE record.destination_port,
                       cargo |-> record.cargo,
                       merchant |-> record.merchant,
                       day |-> day,
                       month |-> month,
                       is_steamship |-> record.is_steamship,
                       format_type |-> record.format_type,
                       confidence |-> IF persistent THEN 9
                                      ELSE record.confidence])
RecordLine(line, line_stripped, i) ==
    AppendRecord(date_header(line_stripped),
                 parse_line_with_context(line, ContextLines(lines, i), i + 1))

\* parse_file: the loop body, port_match what the header pattern reads off
\* the line
ReadLine(line, i, port_match) ==
    IF port_match.ok THEN PortHeaderLine(port_match)
    ELSE RecordLine(line, strip_line(line), i)

\* parse_file: one turn of the loop over the lines of the page
ParseLine ==
    /\ ~Done
    /\ nread < MaxLines
    /\ \E line \in vocab :
         /\ lines' = Append(lines, line)
         /\ nread' = nread + 1
         /\ ReadLine(line, Len(lines), port_header(strip_line(line)))
    /\ UNCHANGED <<ocr_dir, vocab, file_groups, group_idx, page_idx>>
    /\ UNCHANGED normalizer_vars
    /\ UNCHANGED cargo_vars
    /\ UNCHANGED format_vars

\* NextPage with a new parser for the page
NextPage_new_parser ==
    /\ ~Done
    /\ page_idx < Len(file_groups[group_idx])
    /\ page_idx' = page_idx + 1
    /\ lines' = <<>>
    /\ current_port' = None
    /\ current_city' = None
    /\ current_month' = None
    /\ current_day' = NoDay
    /\ run_port' = None
    /\ UNCHANGED <<ocr_dir, vocab, file_groups, group_idx, nread, all_records>>
    /\ UNCHANGED normalizer_vars
    /\ UNCHANGED cargo_vars
    /\ UNCHANGED format_vars

\* process_file_group: parse_file returns, the same parser takes the next page
NextPage ==
    /\ ~Done
    /\ page_idx < Len(file_groups[group_idx])
    /\ page_idx' = page_idx + 1
    /\ lines' = <<>>
    /\ UNCHANGED <<ocr_dir, vocab, file_groups, group_idx, nread, current_port,
                   current_city, current_month, current_day, all_records,
                   run_port>>
    /\ UNCHANGED normalizer_vars
    /\ UNCHANGED cargo_vars
    /\ UNCHANGED format_vars

\* process_all_files: the group is finished and the next one gets a new parser
NextGroup ==
    /\ ~Done
    /\ page_idx = Len(file_groups[group_idx])
    /\ group_idx < Len(file_groups)
    /\ group_idx' = group_idx + 1
    /\ page_idx' = 1
    /\ lines' = <<>>
    /\ current_port' = None
    /\ current_city' = None
    /\ current_month' = None
    /\ current_day' = NoDay
    /\ run_port' = None
    /\ UNCHANGED <<ocr_dir, vocab, file_groups, nread, all_records>>
    /\ UNCHANGED normalizer_vars
    /\ UNCHANGED cargo_vars
    /\ UNCHANGED format_vars

\* process_all_files: the last group is finished, the records are written out
Finish ==
    /\ ~Done
    /\ page_idx = Len(file_groups[group_idx])
    /\ group_idx = Len(file_groups)
    /\ group_idx' = group_idx + 1
    /\ UNCHANGED <<ocr_dir, vocab, file_groups, page_idx, lines, nread,
                   current_port, current_city, current_month, current_day,
                   all_records, run_port>>
    /\ UNCHANGED normalizer_vars
    /\ UNCHANGED cargo_vars
    /\ UNCHANGED format_vars

Next == ParseLine \/ NextPage \/ NextGroup \/ Finish

Spec == Init /\ [][Next]_vars

(***************************************************************************)
(* batch_parse_all.py: process_all_files makes one TTJContextParser and    *)
(* gives it every file of the directory in sorted order.                   *)
(***************************************************************************)
\* txt_files = sorted(ocr_dir.glob("*.txt")), parser = TTJContextParser()
InitAll ==
    /\ NewNormalizer([origin |-> <<>>, dest |-> <<>>])
    /\ NoCargo
    /\ NoFormat
    /\ \E issue \in Issues : ocr_dir = issue.dir /\ vocab = issue.vocab
    /\ file_groups = [k \in 1..Len(SortedNames(ocr_dir)) |->
                        <<SortedNames(ocr_dir)[k]>>]
    /\ group_idx = 1
    /\ page_idx = 1
    /\ lines = <<>>
    /\ nread = 0
    /\ current_port = None
    /\ current_city = None
    /\ current_month = None
    /\ current_day = NoDay
    /\ all_records = <<>>
    /\ run_port = None

\* process_all_files: parse_file returns and the same parser is given the
\* next file
NextFile ==
    /\ ~Done
    /\ group_idx < Len(file_groups)
    /\ group_idx' = group_idx + 1
    /\ lines' = <<>>
    /\ UNCHANGED <<ocr_dir, vocab, file_groups, page_idx, nread, current_port,
                   current_city, current_month, current_day, all_records,
                   run_port>>
    /\ UNCHANGED normalizer_vars
    /\ UNCHANGED cargo_vars
    /\ UNCHANGED format_vars

NextAll == ParseLine \/ NextFile \/ Finish

SpecAll == InitAll /\ [][NextAll]_vars

(***************************************************************************)
(* The normalization run: analyze_ports_for_review makes one               *)
(* PortNormalizer and calls normalize_port for the ports of the records.   *)
(***************************************************************************)
\* no page is under parsing
InitNorm ==
    /\ ocr_dir = {}
    /\ vocab = {}
    /\ file_groups = <<>>
    /\ group_idx = 1
    /\ page_idx = 1
    /\ lines = <<>>
    /\ nread = 0
    /\ current_port = None
    /\ current_city = None
    /\ current_month = None
    /\ current_day = NoDay
    /\ all_records = <<>>
    /\ run_port = None
    /\ \E reference \in References : NewNormalizer(reference)
    /\ NoCargo
    /\ NoFormat

\* PortNormalizer.normalize_port: the result of the call, port the stripped
\* name
\* one cache for both port types
Cache_shared(port_type) == origin_cache
Cache(port_type) == IF port_type = "origin" THEN origin_cache ELSE dest_cache
Canonical(port_type) ==
    IF port_type = "origin" THEN canonical_origin ELSE canonical_dest
Returned(raw, port_type, port) ==
    IF Falsy(raw) \/ port = "" THEN Result(None, Zero, "error")
    ELSE IF port \in DOMAIN Cache(port_type) THEN Cache(port_type)[port]
    ELSE tiers(port, port_type, Canonical(port_type), VariantMap(port_type))

\* the cache after the call: every result but that of an empty name is kept
Cached(raw, port, cache, result) ==
    IF Falsy(raw) \/ port = "" THEN cache ELSE cache @@ (port :> result)

\* "if port in cache: return cache[port]" (lines 141-142) was the way out
FromCache(raw, port_type, port) ==
    ~(Falsy(raw) \/ port = "") /\ port \in DOMAIN Cache(port_type)

Call(raw, port_type, port, result) ==
    /\ ncalls' = ncalls + 1
    /\ last_call' = <<[port |-> raw, port_type |-> port_type,
                       result |-> result,
                       cached |-> FromCache(raw, port_type, port)]>>
    /\ origin_cache' = IF port_type = "origin"
                       THEN Cached(raw, port, origin_cache, result)
                       ELSE origin_cache
    /\ dest_cache' = IF port_type = "origin" THEN dest_cache
                     ELSE Cached(raw, port, dest_cache, result)

\* PortNormalizer.normalize_port: one call
normalize_port ==
    /\ ncalls < MaxCalls
    /\ \E raw \in RawNames, port_type \in PortTypes :
         Call(raw, port_type, strip(raw), Returned(raw, port_type, strip(raw)))
    /\ UNCHANGED <<canonical_origin, canonical_dest, warnings>>
    /\ UNCHANGED parser_vars
    /\ UNCHANGED cargo_vars
    /\ UNCHANGED format_vars

NextNorm == normalize_port

SpecNorm == InitNorm /\ [][NextNorm]_vars

(***************************************************************************)
(* The cargo run: a CargoParser is given the cargo field of a record.      *)
(***************************************************************************)
InitCargo ==
    /\ ocr_dir = {}
    /\ vocab = {}
    /\ file_groups = <<>>
    /\ group_idx = 1
    /\ page_idx = 1
    /\ lines = <<>>
    /\ nread = 0
    /\ current_port = None
    /\ current_city = None
    /\ current_month = None
    /\ current_day = NoDay
    /\ all_records = <<>>
    /\ run_port = None
    /\ NewNormalizer([origin |-> <<>>, dest |-> <<>>])
    /\ cargo \in CargoFields
    /\ items = <<>>
    /\ cargo_done = FALSE
    /\ NoFormat

\* CargoParser.parse_cargo_string: one call
parse_cargo_string ==
    /\ ~cargo_done
    /\ items' = ParseCargo(cargo)
    /\ cargo_done' = TRUE
    /\ UNCHANGED cargo
    /\ UNCHANGED parser_vars
    /\ UNCHANGED normalizer_vars
    /\ UNCHANGED format_vars

NextCargo == parse_cargo_string

SpecCargo == InitCargo /\ [][NextCargo]_vars

(***************************************************************************)
(* The format detection: a FormatDetector is given the text of an OCR file *)
(* and, or not, the year of the issue.                                     *)
(***************************************************************************)
InitFormat ==
    /\ ocr_dir = {}
    /\ vocab = {}
    /\ file_groups = <<>>
    /\ group_idx = 1
    /\ page_idx = 1
    /\ lines = <<>>
    /\ nread = 0
    /\ current_port = None
    /\ current_city = None
    /\ current_month = None
    /\ current_day = NoDay
    /\ all_records = <<>>
    /\ run_port = None
    /\ NewNormalizer([origin |-> <<>>, dest |-> <<>>])
    /\ NoCargo
    /\ ocr_text \in FormatTexts
    /\ year \in Years
    /\ format_type = None

\* FormatDetector.detect_format: one call
detect_format ==
    /\ format_type = None
    /\ format_type' = DetectFormat(ocr_text, year)
    /\ UNCHANGED <<ocr_text, year>>
    /\ UNCHANGED parser_vars
    /\ UNCHANGED normalizer_vars
    /\ UNCHANGED cargo_vars

NextFormat == detect_format

SpecFormat == InitFormat /\ [][NextFormat]_vars

(***************************************************************************)
(* Properties of the parser                                                *)
(***************************************************************************)
\* the last record was emitted from the last line read
JustEmitted ==
    /\ ~Done
    /\ all_records # <<>>
    /\ lines # <<>>
    /\ all_records[Len(all_records)].source_file = page_file
    /\ all_records[Len(all_records)].line_number = Len(lines)
LastRecord == all_records[Len(all_records)]
LastLine == strip_line(lines[Len(lines)])
\* the parser is the first one and reads its first page
FirstPage == ~Done /\ group_idx = 1 /\ page_idx = 1

\* C1: after a port header that resolves a destination, every record emitted
\* from the following lines, up to the next header-shaped line, has the
\* destination that header resolved current_port to.
C1_ContextMonotonicity ==
    (JustEmitted /\ run_port # None) => LastRecord.destination_port = run_port

ScenarioB_Header == "LIVERPOOL."
ScenarioB_Line == "Sept. 11 Essex (s)-Konigsberg-sleepers-Order"

\* C2: a fresh parser reading a known-city header and then a dated-dash line
\* emits exactly one record, its destination that city and its confidence 0.9
\* or 1.0; for Scenario B the record is Essex, steamship, from Konigsberg,
\* sleepers, Order, to Liverpool.
C2_ScenarioB ==
    (/\ FirstPage
     /\ Len(lines) = 2
     /\ port_header(strip_line(lines[1])).ok
     /\ port_header(strip_line(lines[1])).city
     /\ ~port_header(strip_line(lines[1])).skip
     /\ line_fields(strip_line(lines[2])).format_type = "standard_dash")
    => /\ Len(all_records) = 1
       /\ lower(all_records[1].destination_port)
            = lower(port_header(strip_line(lines[1])).port)
       /\ all_records[1].confidence \in {9, 10}
       /\ lines = <<ScenarioB_Header, ScenarioB_Line>> =>
            /\ lower(all_records[1].destination_port) = "liverpool"
            /\ all_records[1].ship_name = "Essex"
            /\ all_records[1].is_steamship
            /\ all_records[1].origin_port = "Konigsberg"
            /\ all_records[1].cargo = "sleepers"
            /\ all_records[1].merchant = "Order"

\* the lines of the lookback window of the last line read
Window == ContextLines(lines, Len(lines) - 1)
\* a port header parse_file resolves current_port from
ResolvesPort(line) ==
    port_header(line).ok /\ ~port_header(line).skip /\ ~port_header(line).city
HeaderInWindow == \E j \in 1..Len(Window) : ResolvesPort(Window[j])

\* C3: a record's confidence is 1.0, 0.9 or 0.7: 1.0 exactly when a port
\* header among the (up to 4) lines before it resolved its destination, 0.9
\* exactly when none did and the destination is the persistent current_port,
\* 0.7 exactly when the destination is unset.
C3_Confidence ==
    JustEmitted =>
      /\ LastRecord.confidence \in {10, 9, 7}
      /\ LastRecord.confidence = 10 <=> HeaderInWindow
      /\ LastRecord.confidence = 9 <=>
           (~HeaderInWindow /\ ~Falsy(current_port)
            /\ LastRecord.destination_port = current_port)
      /\ LastRecord.confidence = 7 <=> Falsy(LastRecord.destination_port)

\* the step emits a record
Emits == Len(all_records') = Len(all_records) + 1
NewRecord == all_records'[Len(all_records')]
NewLine == strip_line(lines'[Len(lines')])

\* what the context before the step gives as destination, whatever the line
ContextDestination ==
    LET found == extract_port_from_context(ContextLines(lines, Len(lines)))
    IN  IF ~Falsy(found) THEN found
        ELSE IF ~Falsy(current_port) THEN current_port
        ELSE None
\* the texts of port headers among a set of lines, alone or as "city (dock)"
HeaderTexts(S) ==
    {port_header(strip_line(l)).port : l \in {h \in S : port_header(strip_line(h)).ok}}
HeaderDerived(S) ==
    HeaderTexts(S)
    \cup {c \o " (" \o d \o ")" : <<c, d>> \in HeaderTexts(S) \X HeaderTexts(S)}
\* the header lines that may precede the next line: the lines of the page on
\* a parser's first page, any line of the issue on a later page
Preceding ==
    IF page_idx = 1 THEN {lines[j] : j \in 1..Len(lines)} ELSE vocab

\* C4: the destination of an emitted record is unset or derived from port
\* header lines before the record's line, and is fixed by the context before
\* the line: no line of the same grammar in its place gets another one.
C4_Step ==
    Emits =>
      /\ NewRecord.destination_port = ContextDestination
      /\ \/ NewRecord.destination_port = None
         \/ NewRecord.destination_port \in HeaderDerived(Preceding)
C4_DestinationFromContext == [][C4_Step]_vars

\* two records of one grammar from different lines with the same destination
C4_Witness ==
    \E a, b \in 1..Len(all_records) :
      /\ all_records[a].raw_line # all_records[b].raw_line
      /\ all_records[a].format_type = all_records[b].format_type
      /\ all_records[a].destination_port = all_records[b].destination_port
      /\ all_records[a].destination_port # None

\* the date last established before line n of the page: by a date header or
\* by the own date of a record line, whichever is later
RECURSIVE EstablishedDate(_, _)
EstablishedDate(file_lines, j) ==
    IF j = 0 THEN <<None, NoDay>>
    ELSE LET line == strip_line(file_lines[j])
         IN  IF date_header(line).ok
             THEN <<date_header(line).month, date_header(line).day>>
             ELSE IF /\ ~port_header(line).ok
                     /\ line_fields(line).format_type # "none"
                     /\ line_fields(line).day # None
                  THEN <<line_fields(line).month, int(line_fields(line).day)>>
                  ELSE EstablishedDate(file_lines, j - 1)

\* C5: an undated record gets the month and day last established before it,
\* by a date header or by an earlier record's own date, whichever is later;
\* a dated record's date is the current date after it.
C5_DateInheritance ==
    (JustEmitted /\ FirstPage) =>
      /\ line_fields(LastLine).day = None =>
           <<LastRecord.month, LastRecord.day>>
             = EstablishedDate(lines, Len(lines) - 1)
      /\ line_fields(LastLine).day # None =>
           /\ current_month = line_fields(LastLine).month
           /\ current_day = int(line_fields(LastLine).day)
           /\ LastRecord.month = current_month
           /\ LastRecord.day = current_day

\* a line of the dated-dash shape whose date is a bare day
BareDayLine(line) ==
    /\ ~port_header(line).ok
    /\ re_match(standard_dash_pattern, line).ok
    /\ Group(re_match(standard_dash_pattern, line), line, "month") = None
BareDayTable == [l \in StrippedLines |-> BareDayLine(l)]

\* C6: a line that starts with a bare day and goes on with ship, origin, cargo
\* and merchant between dashes is emitted as a dated-dash record with that
\* day, never as a condensed record and never dropped.
C6_GrammarPriority ==
    (~Done /\ lines # <<>> /\ BareDayTable[LastLine]) =>
      /\ JustEmitted
      /\ LastRecord.format_type = "standard_dash"
      /\ LastRecord.day
           = int(Group(re_match(standard_dash_pattern, LastLine), LastLine, "day"))

\* the step moves the same parser to the next page of its group
TurnsPage == ~Done /\ ~Done' /\ group_idx' = group_idx /\ page_idx' # page_idx
PersistentContext == <<current_port, current_city, current_month, current_day>>
NoPortHeaderOnPage ==
    \A j \in 1..Len(lines) : ~port_header(strip_line(lines[j])).ok

\* C7: the pages of a group are parsed in ascending page number by one
\* parser: its context is the same after the page turn, and on a later page a
\* record line with no header above it on that page gets the persistent
\* destination, an undated one with no date above it the persistent date.
C7_Step ==
    /\ TurnsPage =>
         /\ page_idx' = page_idx + 1
         /\ PersistentContext' = PersistentContext
         /\ all_records' = all_records
         /\ PageKey(page_file').base_name = PageKey(page_file).base_name
         /\ PageKey(page_file').page_num > PageKey(page_file).page_num
    /\ (Emits /\ page_idx > 1 /\ NoPortHeaderOnPage) =>
         NewRecord.destination_port
           = IF Falsy(current_port) THEN None ELSE current_port
    /\ (/\ Emits /\ page_idx > 1
        /\ EstablishedDate(lines, Len(lines)) = <<None, NoDay>>
        /\ line_fields(NewLine).day = None) =>
         /\ NewRecord.month = current_month
         /\ NewRecord.day = current_day
C7_CrossPageThreading == [][C7_Step]_vars

\* a record on the second page with the port and the date of the first page
C7_Witness ==
    /\ JustEmitted
    /\ page_idx = 2
    /\ NoPortHeaderOnPage
    /\ EstablishedDate(lines, Len(lines)) = <<None, NoDay>>
    /\ LastRecord.destination_port = "BOSTON"
    /\ LastRecord.month = "Oct"
    /\ LastRecord.day = 3

\* a line that is no header and matches none of the three grammars
Unrecognised(line) ==
    /\ ~re_match(port_header_pattern, line).ok
    /\ ~re_match(date_header_pattern, line).ok
    /\ ~re_match(early_at_pattern, line).ok
    /\ ~re_match(standard_dash_pattern, line).ok
    /\ ~re_match(condensed_dash_pattern, line).ok
UnrecognisedTable == [l \in StrippedLines |-> Unrecognised(l)]
ReadsLine == Len(lines') = Len(lines) + 1

\* C8: a line that matches no header pattern and no grammar emits no record
\* and leaves current_port, current_city, current_month and current_day as
\* they are; the page is read on after it.
C8_Step ==
    (ReadsLine /\ UnrecognisedTable[NewLine]) =>
      /\ all_records' = all_records
      /\ PersistentContext' = PersistentContext
      /\ ~Done'
      /\ <<group_idx', page_idx'>> = <<group_idx, page_idx>>
C8_ReadOn ==
    (/\ ~Done /\ lines # <<>> /\ UnrecognisedTable[LastLine]
     /\ nread < MaxLines) => ENABLED ParseLine
C8_FailurePolicy == [][C8_Step]_vars /\ []C8_ReadOn

\* a record emitted from the line after an unrecognised line, under context
C8_Witness ==
    /\ JustEmitted
    /\ Len(lines) >= 3
    /\ UnrecognisedTable[strip_line(lines[Len(lines) - 1])]
    /\ LastRecord.destination_port # None

ScenarioA_Line ==
    "April 27. Andreas @ Fredrikstad," \o EMDASH \o "54,266 boards, Nil."

\* "Month Day." or "Month. Day" and a blank at the head of a line
MonthDayPrefix ==
    << Cls(Letters, 3, 9, FALSE), Cls({"."}, 0, 1, FALSE), WS1,
       Cls(Digits, 1, 2, FALSE), Cls({"."}, 0, 1, FALSE), WS1 >>
\* an at-sign line that opens with a month and a day
DatedAtLine(line) ==
    Contains("@", line) /\ re_match(MonthDayPrefix, line).ok
DatedAtTable == [l \in StrippedLines |-> DatedAtLine(l)]
AtSign(line) == CHOOSE i \in 1..Len(line) : Ch(line, i) = "@"
StartsWith(text, prefix) ==
    Len(prefix) <= Len(text) /\ SubSeq(text, 1, Len(prefix)) = prefix
EndsWith(text, suffix) ==
    /\ Len(suffix) <= Len(text)
    /\ SubSeq(text, Len(text) - Len(suffix) + 1, Len(text)) = suffix

Called == last_call # <<>>
LastPort == strip(last_call[1].port)
LastCanonical ==
    IF last_call[1].port_type = "origin" THEN canonical_origin
    ELSE canonical_dest
Members(list) == {list[k] : k \in 1..Len(list)}
AtLeast(x, y) == ~Greater(y, x)

\* the best similarity of a name to the members of a list
BestSimilarity(name, list) ==
    LET scores == {similarity(name, c) : c \in Members(list)}
    IN  IF scores = {} THEN Zero
        ELSE CHOOSE x \in scores : \A y \in scores : AtLeast(x, y)

\* the first applicable tier in the order error, exact, variant, fuzzy_high,
\* fuzzy_medium, fuzzy_low, unmapped, each threshold in the higher tier
FirstTier(raw, port_type, list) ==
    LET name == strip(raw)
        variant_map == VariantMap(port_type)
        best == BestSimilarity(name, list)
    IN  IF is_obvious_error(raw, port_type) THEN "error"
        ELSE IF \E c \in Members(list) : lower(c) = lower(name) THEN "exact"
        ELSE IF /\ name \in DOMAIN variant_map
                /\ \E c \in Members(list) : lower(c) = lower(variant_map[name])
             THEN "variant"
        ELSE IF list = <<>> THEN "unmapped"
        ELSE IF AtLeast(best, Fraction(92, 100)) THEN "fuzzy_high"
        ELSE IF AtLeast(best, Fraction(85, 100)) THEN "fuzzy_medium"
        ELSE IF AtLeast(best, Fraction(70, 100)) THEN "fuzzy_low"
        ELSE "unmapped"

\* C10: normalize_port returns the first applicable tier in the order error,
\* exact, known variant, fuzzy_high, fuzzy_medium, fuzzy_low, unmapped; with
\* best similarity s the tier is fuzzy_high iff s >= 0.92, fuzzy_medium iff
\* 0.85 <= s < 0.92, fuzzy_low iff 0.70 <= s < 0.85, unmapped iff s < 0.70
\* or the list is empty.
C10_TierOrder ==
    Called =>
      last_call[1].result.tier
        = FirstTier(last_call[1].port, last_call[1].port_type, LastCanonical)

\* what normalize_port(raw, port_type) returns on a new PortNormalizer of the
\* same canonical lists, the caches empty
FreshResult(raw, port_type) ==
    IF Falsy(raw) \/ strip(raw) = "" THEN Result(None, Zero, "error")
    ELSE tiers(strip(raw), port_type, Canonical(port_type),
               VariantMap(port_type))

\* C11: after any sequence of earlier normalize_port calls on the same
\* PortNormalizer, normalize_port(raw, port_type) returns the triple a call
\* on a fresh instance with empty caches returns, and every cache holds for
\* a name the result of its own port type only.
C11_Memoization ==
    /\ Called =>
          last_call[1].result
            = FreshResult(last_call[1].port, last_call[1].port_type)
    /\ \A port \in DOMAIN origin_cache :
          origin_cache[port] = FreshResult(port, "origin")
    /\ \A port \in DOMAIN dest_cache :
          dest_cache[port] = FreshResult(port, "destination")

\* the last call was answered from the cache of its port type while the
\* cache of the other port type holds another result for the same name
C11_Witness ==
    /\ Called
    /\ last_call[1].cached
    /\ LastPort \in DOMAIN origin_cache
    /\ LastPort \in DOMAIN dest_cache
    /\ origin_cache[LastPort] # dest_cache[LastPort]

\* the names a cache resolved at tier exact, each with its canonical port
ExactPairs(cache) ==
    {<<x, cache[x].normalized>> : x \in {y \in DOMAIN cache : cache[y].tier = "exact"}}

\* normalizing the canonical port of an exact match gives it again, exact
Idempotent(cache) ==
    \A pair \in ExactPairs(cache) :
      pair[2] \in DOMAIN cache
        => cache[pair[2]] = Result(pair[2], One, "exact")

\* C12: for every raw name that normalize_port resolves at tier exact to a
\* canonical value c, normalize_port(c, same port type) returns c again at
\* tier exact, whatever the canonical list.
C12_Idempotence == Idempotent(origin_cache) /\ Idempotent(dest_cache)

\* a key of the origin variant table that is neither an error nor an exact
\* match and whose target is a member of the canonical origin list
VariantOfCanonical(raw) ==
    /\ raw \in DOMAIN origin_variant_map
    /\ ~is_obvious_error(raw, "origin")
    /\ \A c \in Members(canonical_origin) : lower(c) # lower(strip(raw))
    /\ origin_variant_map[raw] \in Members(canonical_origin)

\* C13: for every raw name that is a key of the origin variant table, is
\* neither an error nor an exact canonical match, and whose target is in the
\* canonical origin list, normalize_port(raw, 'origin') returns that
\* canonical entry with confidence 1.0 at the known-variant tier; "Dantzic"
\* gives "Danzig" when "Danzig" is canonical.
C13_ScenarioC ==
    /\ Called /\ last_call[1].port_type = "origin"
         /\ VariantOfCanonical(last_call[1].port)
       => last_call[1].result
            = Result(origin_variant_map[last_call[1].port], One, "variant")
    /\ Called /\ last_call[1].port_type = "origin"
         /\ last_call[1].port = "Dantzic"
         /\ "Danzig" \in Members(canonical_origin)
       => last_call[1].result = Result("Danzig", One, "variant")

\* a line made of a known city in capitals and a full stop
CityHeaderLine(line) == \E city \in uk_cities : line = city \o "."

\* C17: for every city of uk_cities, reading a header line made of the
\* city's name in capitals and a full stop sets current_city to that city
\* and leaves current_port, current_month and current_day as they are.
C17_Step ==
    (ReadsLine /\ CityHeaderLine(NewLine)) =>
      /\ current_city' = rstrip_dot(NewLine)
      /\ UNCHANGED <<current_port, current_month, current_day>>
C17_CityHeader == [][C17_Step]_vars

\* the name of a header-shaped line, and whether it names a dock keyword
HeaderShaped(line) == re_match(port_header_pattern, line).ok
HeaderName(line) ==
    rstrip_dot(Group(re_match(port_header_pattern, line), line, "g1"))
NamesDock(line) ==
    /\ HeaderShaped(line)
    /\ \E keyword \in dock_keywords : Contains(keyword, upper(HeaderName(line)))
    /\ upper(HeaderName(line)) \notin uk_cities
HeaderShapedTable == [l \in StrippedLines |-> HeaderShaped(l)]
HeaderNameTable ==
    [l \in StrippedLines |-> IF HeaderShaped(l) THEN HeaderName(l) ELSE None]
NamesDockTable == [l \in StrippedLines |-> NamesDock(l)]
DenyListed(line) ==
    \E skip \in SKIP_HEADERS : Contains(skip, upper(HeaderNameTable[line]))

\* C18: a header naming a dock keyword (DOCK, DOCKS, WHARF, WHARVES, PIER,
\* QUAY) sets current_port to "{current_city} ({dock_name})" when a city is
\* pending and to the dock name alone otherwise, and keeps current_city; a
\* header that is no dock header, no city header and not on the deny-list
\* clears current_city.
C18_Step ==
    ReadsLine =>
      /\ NamesDockTable[NewLine] =>
           /\ current_port' = IF ~Falsy(current_city)
                              THEN current_city \o " (" \o HeaderNameTable[NewLine] \o ")"
                              ELSE HeaderNameTable[NewLine]
           /\ current_city' = current_city
      /\ (/\ HeaderShapedTable[NewLine]
          /\ ~NamesDockTable[NewLine]
          /\ upper(HeaderNameTable[NewLine]) \notin uk_cities
          /\ ~DenyListed(NewLine))
         => current_city' = None
C18_DockHeader == [][C18_Step]_vars

\* a standalone date header, "Month. Day"
DateShapedTable ==
    [l \in StrippedLines |-> re_match(date_header_pattern, l).ok]

\* C19: a line recognised as a port header or as a standalone date header
\* emits no record, and a header-shaped line on the deny-list changes none
\* of current_port, current_city, current_month, current_day either.
C19_Step ==
    ReadsLine =>
      /\ (HeaderShapedTable[NewLine] \/ DateShapedTable[NewLine])
           => all_records' = all_records
      /\ (HeaderShapedTable[NewLine] /\ DenyListed(NewLine))
           => PersistentContext' = PersistentContext
C19_LineRoles == [][C19_Step]_vars

\* a deny-listed header was read under a port context and left no record
C19_Witness ==
    /\ ~Done
    /\ Len(lines) >= 2
    /\ LastLine = "IMPORTS."
    /\ HeaderShapedTable[LastLine] /\ DenyListed(LastLine)
    /\ current_port = "BOSTON"
    /\ all_records = <<>>

\* C20: whenever the lookback of extract_port_from_context resolves a
\* destination for a record, that destination is the persistent current_port
\* parse_file holds at that line.
C20_LookbackAgrees ==
    (JustEmitted /\ ~Falsy(extract_port_from_context(Window)))
      => extract_port_from_context(Window) = current_port

\* the place of a page file in the order the pages are parsed in
GroupOf(file) ==
    CHOOSE g \in DOMAIN file_groups :
      \E p \in DOMAIN file_groups[g] : file_groups[g][p] = file
PageOf(file) ==
    CHOOSE p \in DOMAIN file_groups[GroupOf(file)] :
      file_groups[GroupOf(file)][p] = file
\* record r comes from an earlier input line than record q
EarlierLine(r, q) ==
    \/ GroupOf(r.source_file) < GroupOf(q.source_file)
    \/ /\ GroupOf(r.source_file) = GroupOf(q.source_file)
       /\ PageOf(r.source_file) < PageOf(q.source_file)
    \/ /\ r.source_file = q.source_file
       /\ r.line_number < q.line_number

\* C21: a record once appended to the output is changed by no later line or
\* page; every step appends at most one record, the record of the line just
\* read, and the records stand in the order of the input lines, at most one
\* for a line.
C21_Step ==
    /\ Len(all_records') \in {Len(all_records), Len(all_records) + 1}
    /\ \A k \in 1..Len(all_records) : all_records'[k] = all_records[k]
    /\ Len(all_records') > Len(all_records)
       => /\ ReadsLine
          /\ all_records'[Len(all_records')].source_file = page_file
          /\ all_records'[Len(all_records')].line_number = Len(lines')
    /\ \A k \in 1..(Len(all_records') - 1) :
         EarlierLine(all_records'[k], all_records'[k + 1])
C21_NoBacktracking == [][C21_Step]_vars

\* a dated record was appended after an undated one, which stands as it was,
\* and a page was turned since
C21_Witness ==
    /\ Len(all_records) >= 3
    /\ Falsy(all_records[1].month)
    /\ ~Falsy(all_records[2].month)
    /\ all_records[3].source_file # all_records[1].source_file

\* the file under work is the first one parsed of its document: no file
\* before it is a page of the same issue
FirstOfDocument ==
    \A g \in 1..Len(file_groups) : \A p \in 1..Len(file_groups[g]) :
      (g < group_idx \/ (g = group_idx /\ p < page_idx))
        => PageKey(file_groups[g][p]).base_name # PageKey(page_file).base_name

\* C22: no record of a document takes its destination or its date from a
\* line of another document: on the first file of a document, a record with
\* no port header above it on the page has no destination, and an undated
\* one with no date above it has no date.
C22_Step ==
    (Emits /\ FirstOfDocument) =>
      /\ NoPortHeaderOnPage => Falsy(NewRecord.destination_port)
      /\ (/\ EstablishedDate(lines, Len(lines)) = <<None, NoDay>>
          /\ line_fields(NewLine).day = None) =>
           /\ Falsy(NewRecord.month)
           /\ FalsyDay(NewRecord.day)
C22_Isolation == [][C22_Step]_vars

\* C26: a result of tier fuzzy_low or unmapped, when some canonical port of
\* the list has a similarity above zero to the name, carries a canonical port
\* of the best similarity to the name and that similarity as confidence.
C26_BestCandidate ==
    (/\ Called
     /\ last_call[1].result.tier \in {"fuzzy_low", "unmapped"}
     /\ Greater(BestSimilarity(LastPort, LastCanonical), Zero))
    => /\ last_call[1].result.normalized \in Members(LastCanonical)
       /\ similarity(LastPort, last_call[1].result.normalized)
            = BestSimilarity(LastPort, LastCanonical)
       /\ last_call[1].result.confidence
            = BestSimilarity(LastPort, LastCanonical)

\* the entries of the variant map of a port type whose target is absent from
\* the canonical list of the type: no canonical port is the target, letter
\* case aside
InvalidIn(port_type, list) ==
    {variant \in DOMAIN VariantMap(port_type) :
       \A c \in Members(list) :
         lower(c) # lower(VariantMap(port_type)[variant])}
InvalidTable ==
    [key \in {<<"origin", reference.origin>> : reference \in References}
             \cup {<<"destination", reference.dest>> : reference \in References}
       |-> InvalidIn(key[1], key[2])]
InvalidEntries(port_type) == InvalidTable[<<port_type, Canonical(port_type)>>]
\* the last call normalized a variant of an invalid entry
NormalizedInvalid ==
    /\ Called
    /\ LastPort \in InvalidEntries(last_call[1].port_type)
IgnoredMapping ==
    NormalizedInvalid =>
      /\ last_call[1].result.tier # "variant"
      /\ last_call[1].result.normalized
           # VariantMap(last_call[1].port_type)[LastPort]

\* C27: a variant-map entry whose target is absent from the canonical list
\* of its port type is reported as a warning when the normalizer is made,
\* and normalizing the variant returns neither the absent target nor the
\* tier variant.
C27_InvalidReference ==
    /\ \A port_type \in PortTypes :
         InvalidEntries(port_type) # {} => warnings # {}
    /\ IgnoredMapping

\* C27 as the code has it: such an entry is reported nowhere, neither when
\* the normalizer is made nor later; normalizing the variant returns neither
\* the absent target nor the tier variant.
C27_SilentlyIgnored ==
    /\ warnings = {}
    /\ IgnoredMapping

\* "G'burg", whose target Gothenburg is in no canonical list, was normalized
\* against a list that is not empty
C27_Witness ==
    /\ NormalizedInvalid
    /\ LastPort = "G'burg"
    /\ LastCanonical # <<>>
    /\ last_call[1].result.tier \in {"unmapped", "fuzzy_low"}

\* a line of the condensed shape: dashes between its fields, no at-sign, and
\* no date in front
CondensedShaped(line) ==
    /\ Contains("-", line)
    /\ ~Contains("@", line)
    /\ ~re_match(dated_line_pattern, line).ok
CondensedShapedTable == [l \in StrippedLines |-> CondensedShaped(l)]

\* C28: a record of the condensed-dash form comes from a line whose ship
\* name starts with a capital letter only; a line of that shape whose first
\* character is a lower-case letter emits no record.
C28_Step ==
    ReadsLine =>
      /\ (Emits /\ NewRecord.format_type = "condensed")
           => /\ Ch(NewLine, 1) \in UpperLetters
              /\ Ch(NewRecord.ship_name, 1) \in UpperLetters
      /\ (/\ NewLine # ""
          /\ Ch(NewLine, 1) \in LowerLetters
          /\ CondensedShapedTable[NewLine])
           => all_records' = all_records
C28_CondensedDash == [][C28_Step]_vars

\* a result of normalize_port for a port type is well formed
WellFormed(result, port_type) ==
    /\ AtLeast(result.confidence, Zero) /\ AtLeast(One, result.confidence)
    /\ result.tier \in {"exact", "variant", "fuzzy_high", "fuzzy_medium",
                        "fuzzy_low", "error", "unmapped"}
    /\ result.normalized = None <=> result.tier \in {"error", "unmapped"}
    /\ result.normalized = None => result.confidence = Zero
    /\ result.normalized # None
         => result.normalized \in Members(Canonical(port_type))
    /\ result.tier \in {"exact", "variant"} => result.confidence = One

FirstAt(text, sub, from) ==
    LET last == Len(text) - Len(sub) + 1
    IN  IF \E i \in from..last : SubSeq(text, i, i + Len(sub) - 1) = sub
        THEN CHOOSE i \in from..last :
               /\ SubSeq(text, i, i + Len(sub) - 1) = sub
               /\ \A j \in from..(i - 1) : SubSeq(text, j, j + Len(sub) - 1) # sub
        ELSE 0
QuantityEnd(segment) == FirstAt(segment, " ", 1)
CommodityEnd(segment) == FirstAt(segment, ", ", QuantityEnd(segment) + 1)
QuantityPart(segment) == SubSeq(segment, 1, QuantityEnd(segment) - 1)
CommodityPart(segment) ==
    SubSeq(segment, QuantityEnd(segment) + 1, CommodityEnd(segment) - 1)
MerchantPart(segment) == SubSeq(segment, CommodityEnd(segment) + 2, Len(segment))
AllIn(text, chars) == \A i \in 1..Len(text) : Ch(text, i) \in chars
QuantityCommodityMerchant(segment) ==
    /\ QuantityEnd(segment) > 1
    /\ CommodityEnd(segment) > QuantityEnd(segment) + 1
    /\ Ch(segment, 1) \in Digits
    /\ AllIn(QuantityPart(segment), Digits \cup {","})
    /\ AllIn(CommodityPart(segment), LowerLetters)
    /\ Len(CommodityPart(segment)) >= 3
    /\ Len(MerchantPart(segment)) > 1
    /\ Ch(MerchantPart(segment), 1) \in UpperLetters
    /\ AllIn(MerchantPart(segment), Letters \cup {" ", ".", "&", "'", "-"})
    /\ Ch(segment, Len(segment)) \in Letters

\* C14: a cargo field made of semicolon-separated segments, each of the form
\* "<quantity> <commodity>, <Merchant name>", yields exactly one CargoItem
\* per segment, with the quantity's digits without commas, the commodity
\* word alone and the segment's own merchant; "1,300 staves, Nickols &
\* Colven; 41,500 staves, H. & R. Fowler" yields two items, 1300 and 41500
\* staves, of Nickols & Colven and of H. & R. Fowler.
C14_CargoConservation ==
    cargo_done =>
      /\ \A list \in SegmentLists :
           /\ list # <<>>
           /\ cargo = Join(list, 1)
           /\ \A k \in 1..Len(list) : QuantityCommodityMerchant(list[k])
           => /\ Len(items) = Len(list)
              /\ \A k \in 1..Len(list) :
                   /\ items[k].quantity = without_commas(QuantityPart(list[k]))
                   /\ items[k].commodity = CommodityPart(list[k])
                   /\ items[k].merchant = MerchantPart(list[k])
      /\ cargo = "1,300 staves, Nickols & Colven; 41,500 staves, H. & R. Fowler"
         => /\ Len(items) = 2
            /\ items[1].quantity = "1300" /\ items[2].quantity = "41500"
            /\ items[1].commodity = "staves" /\ items[2].commodity = "staves"
            /\ items[1].merchant = "Nickols & Colven"
            /\ items[2].merchant = "H. & R. Fowler"

\* no piece of the field between semicolons holds a match of either quantity
\* pattern or a commodity keyword
HoldsKeyword(text) ==
    \E k \in 1..Len(commodity_keywords) : Contains(commodity_keywords[k], lower(text))
HoldsQuantity(text) ==
    \/ re_search(item_with_unit_pattern, text).ok
    \/ re_search(item_no_unit_pattern, text).ok
Pieces(text) ==
    LET pieces == split_semicolon(text) IN {pieces[k] : k \in 1..Len(pieces)}
NothingRecognizable(text) ==
    \A piece \in Pieces(text) : ~HoldsQuantity(piece) /\ ~HoldsKeyword(piece)

\* C15: parse_cargo_string returns an empty list, and raises nothing, for an
\* empty or None cargo field and for any cargo field in which no segment
\* holds a quantity pattern or a commodity keyword.
C15_CargoBoundary ==
    cargo_done =>
      /\ Falsy(cargo) => items = <<>>
      /\ ~Falsy(cargo) /\ NothingRecognizable(cargo) => items = <<>>

\* a field of two segments, one with digits in it, and nothing recognizable
C15_Witness ==
    /\ cargo_done
    /\ cargo = "12 ab, Cd; sundries"
    /\ NothingRecognizable(cargo)
    /\ items = <<>>

\* the cargo field is made of the segments of the list
FieldOf(list) == cargo \in {Join(list, 1), EMDASH \o Join(list, 1)}

\* the items of the k-th segment of the list among the items returned: the
\* segments' items follow one another in the order of the segments
RECURSIVE ItemsBefore(_, _)
ItemsBefore(list, k) ==
    IF k = 1 THEN 0
    ELSE ItemsBefore(list, k - 1) + Len(segment_items(list[k - 1]))
ItemsOfSegment(list, k) ==
    SubSeq(items, ItemsBefore(list, k) + 1,
           ItemsBefore(list, k) + Len(segment_items(list[k])))

\* the matches of the two quantity patterns in a segment, and those to keep:
\* all with a unit, and the bare ones whose quantity is that of none with a
\* unit
WithUnit(segment) ==
    LET found == findall(item_with_unit_pattern, segment)
    IN  [u \in 1..Len(found) |-> UnitMatch(segment, found[u])]
Bare(segment) ==
    LET found == findall(item_no_unit_pattern, segment)
    IN  [n \in 1..Len(found) |-> NoUnitMatch(segment, found[n])]
SameQuantity(quantity, with_unit) ==
    \E u \in 1..Len(with_unit) : with_unit[u].quantity = quantity
Kept(with_unit, bare) ==
    with_unit
    \o SelectSeq(bare, LAMBDA match : ~SameQuantity(match.quantity, with_unit))
KeptTable ==
    [segment \in CargoSegments |-> Kept(WithUnit(segment), Bare(segment))]
QuantityUnitCommodity(item) == <<item.quantity, item.unit, item.commodity>>

\* C23: the items of a segment are its explicit-unit matches, all of them,
\* and after them its bare-quantity matches whose quantity equals the
\* quantity of no explicit-unit match of the segment.
C23_Deduplication ==
    cargo_done =>
      \A list \in SegmentLists :
        FieldOf(list) =>
          \A k \in 1..Len(list) :
            KeptTable[list[k]] # <<>> =>
              [a \in 1..Len(ItemsOfSegment(list, k)) |->
                  QuantityUnitCommodity(ItemsOfSegment(list, k)[a])]
              = [a \in 1..Len(KeptTable[list[k]]) |->
                  QuantityUnitCommodity(
                    MatchedItems(list[k], KeptTable[list[k]], None)[a])]

HoldsQuantityTable ==
    [segment \in CargoSegments |-> HoldsQuantity(segment)]
KeywordsIn(segment) ==
    {commodity_keywords[k] : k \in {j \in 1..Len(commodity_keywords) :
                                      Contains(commodity_keywords[j], lower(segment))}}

\* C24: a segment in which neither quantity pattern matches gives exactly one
\* item, a commodity keyword of the segment with quantity, unit and merchant
\* unset, when it holds one of the commodity keywords, and no item otherwise.
C24_KeywordFallback ==
    cargo_done =>
      \A list \in SegmentLists :
        FieldOf(list) =>
          \A k \in 1..Len(list) :
            ~HoldsQuantityTable[list[k]] =>
              IF KeywordsIn(list[k]) # {}
              THEN /\ Len(ItemsOfSegment(list, k)) = 1
                   /\ ItemsOfSegment(list, k)[1].quantity = None
                   /\ ItemsOfSegment(list, k)[1].unit = None
                   /\ ItemsOfSegment(list, k)[1].merchant = None
                   /\ ItemsOfSegment(list, k)[1].commodity \in KeywordsIn(list[k])
              ELSE ItemsOfSegment(list, k) = <<>>

\* the merchant a segment names: the name of its ", Capitalized name" clause
\* without the closing period, none when there is no such clause, when the
\* name is a placeholder or when it is made of commodity words only
NamedMerchant(clause) ==
    IF lower(clause) \in placeholders THEN None
    ELSE IF AllCommodityWords(split_words(clause)) THEN None
    ELSE clause
ClauseMerchant(segment, merchant_match) ==
    IF ~merchant_match.ok THEN None
    ELSE NamedMerchant(rstrip_dot(strip(Group(merchant_match, segment, "merchant"))))
ClauseMerchantTable ==
    [segment \in CargoSegments |->
        ClauseMerchant(segment, re_search(merchant_pattern, segment))]

\* C25: every item of a segment with a quantity match carries the merchant
\* its own segment names, unset exactly when the segment has no merchant
\* clause or the clause is a placeholder (order, nil, ditto) or commodity
\* words only; no item carries the merchant of another segment.
C25_MerchantScope ==
    cargo_done =>
      \A list \in SegmentLists :
        FieldOf(list) =>
          \A k \in 1..Len(list) :
            HoldsQuantityTable[list[k]] =>
              \A a \in 1..Len(ItemsOfSegment(list, k)) :
                ItemsOfSegment(list, k)[a].merchant = ClauseMerchantTable[list[k]]

(***************************************************************************)
(* Properties of the format detector                                       *)
(***************************************************************************)
\* the text holds no at-sign, no dash right before a capital letter and no
\* name of a dock subdivision
NoSignal(t) ==
    /\ \A i \in 1..Len(t) : Ch(t, i) # "@"
    /\ \A i \in 1..(Len(t) - 1) :
         ~(Ch(t, i) = "-" /\ Ch(t, i + 1) \in UpperLetters)
    /\ \A dock \in london_docks : ~Contains(dock, t)

\* C30: detect_format returns one of the five tags; with a year hint the tag
\* is early_at up to 1878, transition for 1879-1880, standard_dash for
\* 1881-1884 and late_dock after, whatever the text; without a year hint and
\* with a text that holds no at-sign, no dash-delimiter signal and no dock
\* subdivision, the tag is unknown.
C30_DetectFormat ==
    format_type # None =>
      /\ format_type \in FormatTypes
      /\ year # NoYear =>
           /\ year <= 1878 => format_type = "early_at"
           /\ year \in 1879..1880 => format_type = "transition"
           /\ year \in 1881..1884 => format_type = "standard_dash"
           /\ year >= 1885 => format_type = "late_dock"
      /\ (year = NoYear /\ NoSignal(ocr_text)) => format_type = "unknown"

\* a text of at-sign arrivals was tagged late_dock for its year
C30_Witness ==
    /\ format_type = "late_dock"
    /\ year = 1885
    /\ ocr_text = "Anna @ Riga\nAnna @ Riga"
    /\ ContentFormat(detect_format_signals(ocr_text)) = "early_at"

====
